---- MODULE Spec2Model ----
(***************************************************************************)
(* Object attribute / struct-layout engine of OCILIB (object.c), with the  *)
(* counted allocators (memory.c), the hash tables (hash.c) and the file    *)
(* position (file.c).                                                      *)
(*                                                                         *)
(* SpecLayout : type descriptors and the memoized layout computation      *)
(*              (ObjectGetAttrInfo, ObjectGetStructSize).                  *)
(* SpecInd    : the null indicator indexer (ObjectGetIndOffset).           *)
(* SpecAttr   : attribute setters and getters on a root instance and on    *)
(*              the instances embedded in it.                              *)
(* SpecInit   : ObjectInit on a fetched handle, with the resolution of the *)
(*              run-time type (ObjectGetRealTypeInfo).                     *)
(* SpecLife   : creation, fetch, nested wrappers and release of instances. *)
(* SpecRace   : two threads in ObjectGetStructSize on one type.            *)
(* SpecMem    : threads in the counted allocators of memory.c.             *)
(* SpecNull   : the getters on instances whose attributes are null.        *)
(* SpecIndex  : the lookup of an attribute by name (ObjectGetAttrIndex).    *)
(* SpecText   : the text of an instance (ObjectToText).                    *)
(* SpecSlots  : the arrays objs, tmpbufs, tmpsizes over the rows of a      *)
(*              define (ObjectInit, ObjectReset, ObjectAssign).            *)
(* SpecUser   : the size of the user struct (ObjectGetUserStructSize).     *)
(* SpecPaths  : the null flag slot of each attribute path.                 *)
(* SpecOverlap: the storage of the attributes inside the struct.           *)
(* SpecFlags  : the getters on null flags of every value of OCIInd.        *)
(* SpecCount  : the counter nb_objinst over the life of an instance.       *)
(* SpecHeap   : MemAlloc, MemRealloc, MemFree and the byte counters.       *)
(* SpecHash   : HashCreate, HashAdd, HashLookup and the HashGet functions. *)
(* SpecSeek   : FileSeek and FileGetOffset on a file of constant size.     *)
(***************************************************************************)
EXTENDS Integers, Sequences, FiniteSets, TLC

VARIABLES
    cat,      \* type catalog: cat[t] = [parent_type, cols] (OCI_TypeInfo, read-only part)
    lay,      \* cached layout: lay[t] = [struct_size, align, offsets] (OCI_TypeInfo)
    first,    \* history: what the first ObjectGetStructSize(t) returned and left in offsets
              \* (SpecHash: the values added for each key, in order)
    ret,      \* the last call and what it returned
    insts,    \* OCI_Object wrappers, by path: << >> is the root, Append(p, i) the
              \* wrapper cached in objs[i] of the instance at p
    mem,      \* the bytes of the native struct of the root instance
              \* (SpecHeap: the headers of the allocated blocks, by address)
    ind,      \* the null indicator array of the root instance (tab_ind)
    thr,      \* threads: thr[k] is the program point and the locals of thread k
    env       \* the library globals (OCILib): the memory mutex and the counters
              \* (SpecHash: the table; SpecSeek: the file)

vars == <<cat, lay, first, ret, insts, mem, ind, thr, env>>
objvars == <<insts, mem, ind>>

(***************************************************************************)
(* Bounds                                                                  *)
(***************************************************************************)
NTypes == 2          \* type descriptors in the connection's catalog
MaxLayoutCols == 3   \* columns declared in a whole catalog (layout specification)
MaxIndCols == 4      \* columns declared in a whole catalog (indicator specification)

(***************************************************************************)
(* Program constants (LP64 build)                                          *)
(***************************************************************************)
SizeofShort == 2
SizeofInt == 4
SizeofDouble == 8
SizeofOCINumber == 22
SizeofOCIDate == 8
SizeofSb2 == 2
SizeofUb1 == 1
SizeofBoolean == 4
SizeofPtr == 8
Ub2Mod == 65536

NoType == 0
TypeIds == 1..NTypes

(***************************************************************************)
(* Column descriptors (OCI_Column: datatype, subtype, typinf)              *)
(***************************************************************************)
Col(dt, st, ti) == [datatype |-> dt, subtype |-> st, typinf |-> ti]

ScalarCols ==
    { Col("NUMERIC", "NUMBER", NoType),
      Col("NUMERIC", "DOUBLE", NoType) }

nb_cols(c, t) == Len(c[t].cols)

IndScalarCols == { Col("NUMERIC", "NUMBER", NoType) }

\* columns a type with index n may declare: scalars, or an object of an earlier type
OwnCols(S, n) == S \cup { Col("OBJECT", "NONE", j) : j \in 1..(n - 1) }

SeqsUpTo(S, m) == UNION { [1..k -> S] : k \in 0..m }

\* a derived type lists the columns of its parent first, then its own
TypeInfoGet(c, p, own) ==
    [parent_type |-> p,
     cols        |-> (IF p = NoType THEN << >> ELSE c[p].cols) \o own]

RECURSIVE OwnTotal(_, _)
OwnTotal(c, n) ==
    IF n = 0 THEN 0
    ELSE OwnTotal(c, n - 1) + Len(c[n].cols)
         - (IF c[n].parent_type = NoType THEN 0 ELSE Len(c[c[n].parent_type].cols))

\* the catalogs of n types over the scalar columns S that declare at most m columns;
\* a root object type declares at least one attribute, a subtype may declare none
RECURSIVE Catalogs(_, _, _)
Catalogs(n, S, m) ==
    IF n = 0 THEN { << >> }
    ELSE UNION { { Append(c, TypeInfoGet(c, po[1], po[2])) :
                       po \in { x \in (0..(n - 1)) \X SeqsUpTo(OwnCols(S, n), m - OwnTotal(c, n - 1)) :
                                    x[1] = NoType => Len(x[2]) >= 1 } } :
                 c \in Catalogs(n - 1, S, m) }

(***************************************************************************)
(* ROUNDUP(amount, align): (amount + (align - 1)) & ~(align - 1).          *)
(* align is 0 or a power of two; for align = 0 the mask ~(0 - 1) is 0.     *)
(***************************************************************************)
ROUNDUP(amount, align) ==
    IF align = 0 THEN 0 ELSE ((amount + (align - 1)) \div align) * align

(***************************************************************************)
(* Layout store helpers                                                    *)
(***************************************************************************)
EmptyLayout(c) ==
    [t \in DOMAIN c |->
        [struct_size |-> 0, align |-> 0, offsets |-> [i \in 1..Len(c[t].cols) |-> 0]]]

SetOffset(L, t, i, v) == [L EXCEPT ![t].offsets[i + 1] = v]
SetAlign(L, t, a)     == [L EXCEPT ![t].align = a]
SetSize(L, t, s)      == [L EXCEPT ![t].struct_size = s]

Out(L, size, align) == [L |-> L, size |-> size, align |-> align]

RECURSIVE ObjectGetStructSize(_, _, _)
RECURSIVE ObjectGetAttrInfo(_, _, _, _, _)
RECURSIVE StructSizeLoop(_, _, _, _, _, _, _)
RECURSIVE CopyParentOffsets(_, _, _, _)

(***************************************************************************)
(* ObjectGetAttrInfo(typinf, index, p_size, p_align); a is *p_align on     *)
(* entry (left alone when index is out of range).                          *)
(***************************************************************************)
ScalarSize(col) ==
    CASE col.datatype = "NUMERIC" /\ col.subtype = "SHORT"  -> SizeofShort
      [] col.datatype = "NUMERIC" /\ col.subtype = "INT"    -> SizeofInt
      [] col.datatype = "NUMERIC" /\ col.subtype = "FLOAT"  -> SizeofDouble
      [] col.datatype = "NUMERIC" /\ col.subtype = "DOUBLE" -> SizeofDouble
      [] col.datatype = "NUMERIC"                           -> SizeofOCINumber
      [] col.datatype = "DATETIME"                          -> SizeofOCIDate
      [] col.datatype = "BOOLEAN"                           -> SizeofBoolean
      [] OTHER                                              -> SizeofPtr

ScalarAlign(col) ==
    CASE col.datatype = "NUMERIC" /\ col.subtype = "SHORT"  -> SizeofShort
      [] col.datatype = "NUMERIC" /\ col.subtype = "INT"    -> SizeofInt
      [] col.datatype = "NUMERIC" /\ col.subtype = "FLOAT"  -> SizeofDouble
      [] col.datatype = "NUMERIC" /\ col.subtype = "DOUBLE" -> SizeofDouble
      [] col.datatype = "NUMERIC"                           -> SizeofUb1
      [] col.datatype = "DATETIME"                          -> SizeofSb2
      [] col.datatype = "BOOLEAN"                           -> SizeofBoolean
      [] OTHER                                              -> SizeofPtr

UpdateAlign(L, t, a) == IF a > L[t].align THEN SetAlign(L, t, a) ELSE L

ObjectGetAttrInfo(c, L, t, index, a) ==
    IF index >= nb_cols(c, t)
    THEN Out(L, 0, a)
    ELSE LET col == c[t].cols[index + 1]
             Nested(r) == Out(UpdateAlign(r.L, t, r.align), r.size, r.align)
         IN  IF col.datatype = "OBJECT"
             THEN Nested(ObjectGetStructSize(c, L, col.typinf))
             ELSE Out(UpdateAlign(L, t, ScalarAlign(col)), ScalarSize(col), ScalarAlign(col))

(***************************************************************************)
(* The for loop of ObjectGetStructSize, from column i on.                  *)
(***************************************************************************)
\* a loop that rounds the cursor to the alignment of the column just laid out
StructSizeLoop_OwnAlign(c, L, t, i, size, size2, align) ==
    IF i >= nb_cols(c, t)
    THEN [L |-> L, size |-> size, size2 |-> size2]
    ELSE LET First(a0) == Out(SetOffset(a0.L, t, i, 0), a0.size, a0.align)
             Step(cur, nxt) ==
                 StructSizeLoop(c, nxt.L, t, i + 1,
                                ROUNDUP(size + cur.size, cur.align), nxt.size, nxt.align)
             Look(cur) == Step(cur, ObjectGetAttrInfo(c, cur.L, t, i + 1, cur.align))
         IN  Look(IF i > 0
                  THEN Out(SetOffset(L, t, i, size), size2, align)
                  ELSE First(ObjectGetAttrInfo(c, L, t, i, align)))

StructSizeLoop(c, L, t, i, size, size2, align) ==
    IF i >= nb_cols(c, t)
    THEN [L |-> L, size |-> size, size2 |-> size2]
    ELSE LET First(a0) == Out(SetOffset(a0.L, t, i, 0), a0.size, a0.align)
             Step(cur, nxt) ==
                 StructSizeLoop(c, nxt.L, t, i + 1,
                                ROUNDUP(size + cur.size, nxt.align), nxt.size, nxt.align)
             Look(cur) == Step(cur, ObjectGetAttrInfo(c, cur.L, t, i + 1, cur.align))
         IN  Look(IF i > 0
                  THEN Out(SetOffset(L, t, i, size), size2, align)
                  ELSE First(ObjectGetAttrInfo(c, L, t, i, align)))

\* a copy loop that stops one column short of the parent's columns
CopyParentOffsets_ShortByOne(c, L, t, i) ==
    IF i + 1 >= nb_cols(c, c[t].parent_type)
    THEN L
    ELSE CopyParentOffsets(c, SetOffset(L, t, i, L[c[t].parent_type].offsets[i + 1]), t, i + 1)

CopyParentOffsets(c, L, t, i) ==
    IF i >= nb_cols(c, c[t].parent_type)
    THEN L
    ELSE CopyParentOffsets(c, SetOffset(L, t, i, L[c[t].parent_type].offsets[i + 1]), t, i + 1)

(***************************************************************************)
(* ObjectGetStructSize(typinf, p_size, p_align)                            *)
(***************************************************************************)
\* a first own column put right behind the parent, without padding
ParentPad_None(size, next_align) == size

\* the parent field is padded to the alignment of the first own column
ParentPad(size, next_align) == ROUNDUP(size, next_align)

\* the body run when typinf->struct_size == 0
StructSizeCompute(c, L, t) ==
    LET p   == c[t].parent_type
        i0  == IF p # NoType THEN nb_cols(c, p) ELSE 0
        own == p # NoType /\ i0 < nb_cols(c, t)
        \* the final round up of the size to the alignment of the type
        Closed(lp) == SetSize(lp.L, t, ROUNDUP(lp.size + lp.size2, lp.L[t].align))
        \* the loop over the columns, after the first own column has been looked at
        Columns(par, fst) ==
            Closed(StructSizeLoop(c, fst.L, t, i0,
                                  IF own THEN ParentPad(par.size, fst.align) ELSE par.size,
                                  fst.size, par.align))
        \* the look at the first own column of a subtype
        FirstOwn(par, L1) ==
            Columns(par, IF own
                         THEN ObjectGetAttrInfo(c, SetAlign(L1, t, par.align), t, i0, 0)
                         ELSE Out(L1, 0, 0))
        \* the copy of the parent's offsets
        Inherited(par) ==
            FirstOwn(par, IF p # NoType THEN CopyParentOffsets(c, par.L, t, 0) ELSE L)
    IN  Inherited(IF p # NoType THEN ObjectGetStructSize(c, L, p) ELSE Out(L, 0, 0))

\* a cached path that leaves *p_align unset (0 in the caller)
ObjectGetStructSize_NoCachedAlign(c, L, t) ==
    IF L[t].struct_size = 0
    THEN LET Computed(L3) == Out(L3, L3[t].struct_size, L3[t].align)
         IN  Computed(StructSizeCompute(c, L, t))
    ELSE Out(L, L[t].struct_size, 0)

ObjectGetStructSize(c, L, t) ==
    IF L[t].struct_size = 0
    THEN LET Computed(L3) == Out(L3, L3[t].struct_size, L3[t].align)
         IN  Computed(StructSizeCompute(c, L, t))
    ELSE Out(L, L[t].struct_size, L[t].align)

(***************************************************************************)
(* ObjectGetIndOffset(typinf, index): ub2 counters i and j.                *)
(***************************************************************************)
RECURSIVE ObjectGetIndOffset(_, _, _)
RECURSIVE IndOffsetLoop(_, _, _, _, _)

\* a loop that counts a nested object as one slot
IndOffsetLoop_Flat(c, t, index, i, j) ==
    IF i >= index THEN j ELSE IndOffsetLoop(c, t, index, i + 1, (j + 1) % Ub2Mod)

IndOffsetLoop(c, t, index, i, j) ==
    IF i >= index
    THEN j
    ELSE LET col == c[t].cols[i + 1] IN
         IF col.datatype = "OBJECT"
         THEN IndOffsetLoop(c, t, index, i + 1,
                  (j + ObjectGetIndOffset(c, col.typinf, nb_cols(c, col.typinf))) % Ub2Mod)
         ELSE IndOffsetLoop(c, t, index, i + 1, (j + 1) % Ub2Mod)

\* a count that starts at 0 instead of 1
ObjectGetIndOffset_FromZero(c, t, index) ==
    IF t = NoType THEN 0 ELSE IndOffsetLoop(c, t, index, 0, 0)

ObjectGetIndOffset(c, t, index) ==
    IF t = NoType THEN 0 ELSE IndOffsetLoop(c, t, index, 0, 1)

\* a slot counted from the start of the array, without the base of the instance
IndIndex_NoBase(idx_ind, c, t, index) == ObjectGetIndOffset(c, t, index)

\* the slot of attribute index in the indicator array of an instance (ObjectIsNull),
\* and the base of the instance embedded in that attribute (ObjectInit)
IndIndex(idx_ind, c, t, index) == idx_ind + ObjectGetIndOffset(c, t, index)

(***************************************************************************)
(* SpecLayout: callers ask for the layout of the types of a catalog        *)
(***************************************************************************)
None == [none |-> TRUE]
NoRet == [op |-> "none", t |-> NoType, index |-> 0, size |-> 0, align |-> 0,
          val |-> 0, again |-> FALSE]

InitLayout ==
    /\ thr = << >> /\ env = << >>
    /\ cat \in Catalogs(NTypes, ScalarCols, MaxLayoutCols)
    /\ lay = EmptyLayout(cat)
    /\ first = [t \in TypeIds |-> None]
    /\ ret = NoRet
    /\ insts = << >> /\ mem = << >> /\ ind = << >>

CallGetStructSize(t) ==
    \E r \in { ObjectGetStructSize(cat, lay, t) } :
    /\ lay' = r.L
    /\ first' = [u \in TypeIds |->
                  IF u = t
                  THEN IF first[t] = None
                       THEN [size |-> r.size, align |-> r.align,
                             offsets |-> r.L[t].offsets, mid |-> FALSE]
                       ELSE first[t]
                  ELSE IF first[u] = None THEN None ELSE [first[u] EXCEPT !.mid = TRUE]]
    /\ ret' = [op |-> "GetStructSize", t |-> t, index |-> 0, size |-> r.size,
               align |-> r.align, val |-> 0, again |-> first[t] # None]
    /\ UNCHANGED <<thr, env, cat, objvars>>

NextLayout == \E t \in TypeIds : CallGetStructSize(t)

SpecLayout == InitLayout /\ [][NextLayout]_vars

(***************************************************************************)
(* SpecInd: callers ask for indicator offsets                              *)
(***************************************************************************)
InitInd ==
    /\ thr = << >> /\ env = << >>
    /\ cat \in Catalogs(NTypes, IndScalarCols, MaxIndCols)
    /\ lay = EmptyLayout(cat)
    /\ first = [t \in TypeIds |-> None]
    /\ ret = NoRet
    /\ insts = << >> /\ mem = << >> /\ ind = << >>

CallGetIndOffset(t, index) ==
    /\ ret' = [op |-> "GetIndOffset", t |-> t, index |-> index, size |-> 0, align |-> 0,
               val |-> ObjectGetIndOffset(cat, t, index), again |-> FALSE]
    /\ UNCHANGED <<thr, env, cat, lay, first, objvars>>

NextInd == \E t \in TypeIds : \E index \in 0..nb_cols(cat, t) : CallGetIndOffset(t, index)

SpecInd == InitInd /\ [][NextInd]_vars

(***************************************************************************)
(* Claims on the layout                                                    *)
(***************************************************************************)
Called(t) == first[t] # None
Derived(t) == cat[t].parent_type # NoType
Parent(t) == cat[t].parent_type

\* C1: for every derived type D with parent P (a D without own column included) the
\* struct size computed for D is at least the struct size computed for P.
C1_DerivedSizeAtLeastParent ==
    \A d \in TypeIds :
        (Called(d) /\ Derived(d)) => first[d].size >= lay[Parent(d)].struct_size

\* C2: after ObjectGetStructSize(D), offsets_D[i] = offsets_P[i] for every i < P.nb_cols,
\* and later layout computations of other types leave these values as they were.
C2_PrefixOffsets ==
    \A d \in TypeIds :
        (Called(d) /\ Derived(d)) =>
            \A i \in 1..nb_cols(cat, Parent(d)) :
                /\ lay[d].offsets[i] = lay[Parent(d)].offsets[i]
                /\ lay[d].offsets[i] = first[d].offsets[i]

C2_Witness ==
    \E d \in TypeIds :
        /\ Called(d) /\ Derived(d)
        /\ nb_cols(cat, Parent(d)) >= 2
        /\ nb_cols(cat, d) > nb_cols(cat, Parent(d))
        /\ lay[d].offsets[2] > 0
        /\ first[d].mid /\ ret.t # d

\* C3: every type with at least one column has a non-zero struct_size once
\* ObjectGetStructSize has run on it.
C3_NonZeroSize ==
    \A t \in TypeIds :
        (Called(t) /\ nb_cols(cat, t) >= 1) => lay[t].struct_size # 0

\* C4: a repeated ObjectGetStructSize returns the (size, align) of the first call and
\* offsets[] stay as the first call left them, whatever other types were laid out since.
C4_Idempotent ==
    \A t \in TypeIds :
        Called(t) =>
            /\ lay[t].offsets = first[t].offsets
            /\ (ret.op = "GetStructSize" /\ ret.t = t) =>
                   (ret.size = first[t].size /\ ret.align = first[t].align)

C4_Witness ==
    \E t \in TypeIds :
        /\ ret.op = "GetStructSize" /\ ret.t = t /\ ret.again
        /\ first[t].mid
        /\ \E i \in 1..nb_cols(cat, t) : cat[t].cols[i].datatype = "OBJECT"
        /\ ret.size > 0 /\ ret.align > 0

(***************************************************************************)
(* Claims on the indicator offsets                                         *)
(***************************************************************************)
\* the null flags of the attributes of a type: one per column, plus, for a nested
\* object column, the flags of the attributes of the nested type
RECURSIVE FlattenedCount(_, _)
RECURSIVE FlattenedUpTo(_, _, _)
FlattenedUpTo(c, t, n) ==
    IF n = 0 THEN 0
    ELSE FlattenedUpTo(c, t, n - 1) + 1
         + (IF c[t].cols[n].datatype = "OBJECT"
            THEN FlattenedCount(c, c[t].cols[n].typinf) ELSE 0)
FlattenedCount(c, t) == FlattenedUpTo(c, t, nb_cols(c, t))

NestedThenScalar(t) ==
    /\ nb_cols(cat, t) >= 2
    /\ cat[t].cols[1].datatype = "OBJECT"
    /\ cat[t].cols[2].datatype # "OBJECT"

\* C5: with column 0 a nested object and column 1 a scalar, ObjectGetIndOffset(type, 1)
\* is 2 + the flattened number of null flags of the nested type's attributes; for a
\* nested type of 2 scalar columns the flag of column 1 of a root instance is slot 4.
C5_NestedThenScalarOffset ==
    (ret.op = "GetIndOffset" /\ ret.index = 1 /\ NestedThenScalar(ret.t)) =>
        /\ ret.val = 2 + FlattenedCount(cat, cat[ret.t].cols[1].typinf)
        /\ LET inner == cat[ret.t].cols[1].typinf IN
           (nb_cols(cat, inner) = 2 /\ \A i \in 1..2 : cat[inner].cols[i].datatype # "OBJECT")
               => IndIndex(0, cat, ret.t, 1) = 4

C5_Witness ==
    /\ ret.op = "GetIndOffset" /\ ret.index = 1 /\ NestedThenScalar(ret.t)
    /\ nb_cols(cat, cat[ret.t].cols[1].typinf) = 2
    /\ \A i \in 1..2 : cat[cat[ret.t].cols[1].typinf].cols[i].datatype # "OBJECT"
    /\ ret.val = 4

\* C6 as stated: the count starts at 0, a plain column adds 1, a nested object column
\* adds 1 + ObjectGetIndOffset(nested_type, nested_type.nb_cols); index 0 gives 0.
RECURSIVE CountFromZero(_, _, _)
CountFromZero(c, t, n) ==
    IF n = 0 THEN 0
    ELSE CountFromZero(c, t, n - 1)
         + (IF c[t].cols[n].datatype = "OBJECT"
            THEN 1 + ObjectGetIndOffset(c, c[t].cols[n].typinf, nb_cols(c, c[t].cols[n].typinf))
            ELSE 1)

C6_CountsFromZero ==
    ret.op = "GetIndOffset" => ret.val = CountFromZero(cat, ret.t, ret.index) % Ub2Mod

\* C6 amended: the count starts at 1 (slot 0 is the composite's own flag), a plain
\* column adds 1, a nested object column adds 1 + the flattened count of the nested
\* type (the value of ObjectGetIndOffset(nested_type, nested_type.nb_cols)); index 0
\* gives 1.
C6_CountsFromOne ==
    ret.op = "GetIndOffset" =>
        /\ ret.val = (1 + FlattenedUpTo(cat, ret.t, ret.index)) % Ub2Mod
        /\ ret.index = 0 => ret.val = 1
        /\ \A i \in 1..ret.index :
               cat[ret.t].cols[i].datatype = "OBJECT" =>
                   ObjectGetIndOffset(cat, cat[ret.t].cols[i].typinf,
                                      nb_cols(cat, cat[ret.t].cols[i].typinf))
                       = (1 + FlattenedCount(cat, cat[ret.t].cols[i].typinf)) % Ub2Mod

C6_Witness ==
    /\ ret.op = "GetIndOffset" /\ ret.index >= 2
    /\ \E i \in 1..ret.index : cat[ret.t].cols[i].datatype = "OBJECT"
                               /\ nb_cols(cat, cat[ret.t].cols[i].typinf) >= 1
    /\ ret.val >= 4

(***************************************************************************)
(* Instances (OCI_Object), their native struct and null indicator array    *)
(***************************************************************************)
NULL == 0
OCI_IND_NOTNULL == 0
OCI_IND_NULL == -1
RootHandle == 1     \* address of the native struct of the root instance
IndArray == 1       \* the indicator array of the root instance
MemBytes == 48      \* bytes of native memory that are modelled

AttrCol(name, dt, st, ti) ==
    [name |-> name, datatype |-> dt, subtype |-> st, typinf |-> ti]

\* a type descriptor with names and finality; a subtype lists its parent's columns first
NamedType(c, p, final, own) ==
    [parent_type |-> p, is_final |-> final,
     cols        |-> (IF p = NoType THEN << >> ELSE c[p].cols) \o own]

NumCol(name, st) == AttrCol(name, "NUMERIC", st, NoType)

FlatCatalog(c1, c2) == << NamedType(<< >>, NoType, TRUE, <<c1, c2>>) >>

\* INNER(X INTEGER), OUTER(A INNER, B INTEGER)
NestedCatalog ==
    LET c1 == << NamedType(<< >>, NoType, TRUE, << NumCol("X", "INT") >>) >>
    IN  Append(c1, NamedType(c1, NoType, TRUE,
                             << AttrCol("A", "OBJECT", "NONE", 1), NumCol("B", "INT") >>))

\* P(X INTEGER) NOT FINAL, D UNDER P () NOT FINAL, DD UNDER D (Z INTEGER)
InheritCatalog ==
    LET c1 == << NamedType(<< >>, NoType, FALSE, << NumCol("X", "INT") >>) >>
        c2 == Append(c1, NamedType(c1, 1, FALSE, << >>))
    IN  Append(c2, NamedType(c2, 2, TRUE, << NumCol("Z", "INT") >>))

AttrCatalogs ==
    { FlatCatalog(NumCol("S", "SHORT"), AttrCol("T", "TEXT", "NONE", NoType)),
      FlatCatalog(NumCol("N", "NUMBER"), AttrCol("R", "RAW", "NONE", NoType)),
      FlatCatalog(NumCol("D", "DOUBLE"), AttrCol("B", "BOOLEAN", "NONE", NoType)),
      FlatCatalog(NumCol("L", "BIGINT"), NumCol("F", "FLOAT")),
      NestedCatalog,
      InheritCatalog }

\* ostrcasecmp(a, b) == 0
LowerCase ==
    [A |-> "a", B |-> "b", D |-> "d", F |-> "f", L |-> "l", N |-> "n",
     R |-> "r", S |-> "s", T |-> "t", X |-> "x", Y |-> "y", Z |-> "z"]

ToUpper(s) ==
    IF \E k \in DOMAIN LowerCase : LowerCase[k] = s
    THEN CHOOSE k \in DOMAIN LowerCase : LowerCase[k] = s
    ELSE s

ostrcasecmp(a, b) == ToUpper(a) = ToUpper(b)

\* the names a caller passes for an instance of type t: its attributes, in the
\* other case than the one the catalog stores, and a name of no attribute
AttrArgs(c, t) ==
    { LowerCase[c[t].cols[i].name] : i \in 1..nb_cols(c, t) } \cup { "nosuch" }

\* the names a caller passes to read a text
TextArgs(c, t) ==
    { LowerCase[c[t].cols[i].name] : i \in { j \in 1..nb_cols(c, t) : c[t].cols[j].datatype = "TEXT" } }
        \cup { "nosuch" }

(***************************************************************************)
(* Outcomes of the native calls made while an instance is initialised      *)
(***************************************************************************)
NatSteps ==
    { "none", "refNew", "getTypeRef", "typeByRef", "descrAlloc", "describe", "param",
      "schema", "name", "lookup", "objNew", "getInd" }

\* the native call named step fails, the others succeed
NatFail(tdo, found, step) ==
    [refNew |-> step # "refNew", getTypeRef |-> step # "getTypeRef",
     typeByRef |-> step # "typeByRef", tdo |-> tdo, found |-> found,
     descrAlloc |-> step # "descrAlloc", describe |-> step # "describe",
     param |-> step # "param", schema |-> step # "schema", name |-> step # "name",
     lookup |-> step # "lookup", objNew |-> step # "objNew", lifetime |-> "TRANSIENT",
     getInd |-> step # "getInd"]

NatOk(tdo) == NatFail(tdo, FALSE, "none")

(***************************************************************************)
(* ObjectGetRealTypeInfo(typinf, object)                                   *)
(***************************************************************************)
\* no call of ObjectGetRealTypeInfo
NoReal == [result |-> NoType, crash |-> FALSE, calls |-> {}]

\* the native calls ObjectGetRealTypeInfo makes on a handle of a type that is not final:
\* OCI_EXEC runs a call only while every call before it has succeeded
RealTypeCalls(typinf, nat) ==
    LET s1  == nat.refNew
        s2  == s1 /\ nat.getTypeRef
        s3  == s2 /\ nat.typeByRef
        dsc == s3 /\ nat.tdo # NoType /\ nat.tdo # typinf
        s4  == nat.descrAlloc
        s5  == s4 /\ nat.describe
        s6  == s5 /\ nat.param
        s7  == s6 /\ nat.schema
        s8  == s7 /\ nat.name
    IN  { "refNew", "objFree" }
            \cup (IF s1 THEN { "getTypeRef" } ELSE {})
            \cup (IF s2 THEN { "typeByRef" } ELSE {})
            \cup (IF dsc THEN { "listExists" } ELSE {})
            \cup (IF dsc /\ ~nat.found
                  THEN { "descrAlloc", "handleFree" }
                           \cup (IF s4 THEN { "describe" } ELSE {})
                           \cup (IF s5 THEN { "param" } ELSE {})
                           \cup (IF s6 THEN { "schema" } ELSE {})
                           \cup (IF s7 THEN { "name" } ELSE {})
                           \cup (IF s8 THEN { "lookup" } ELSE {})
                  ELSE {})

\* a resolver that asks the runtime for the type of every handle, final type or not
ObjectGetRealTypeInfo_AlwaysAsk(c, typinf, object, nat) ==
    IF typinf = NoType
    THEN [result |-> NoType, crash |-> FALSE, calls |-> {}]
    ELSE IF object # NULL
    THEN LET s3  == nat.refNew /\ nat.getTypeRef /\ nat.typeByRef
             tdo == IF s3 THEN nat.tdo ELSE NoType
             dsc == tdo # NoType /\ tdo # typinf /\ ~nat.found
             s8  == nat.descrAlloc /\ nat.describe /\ nat.param /\ nat.schema /\ nat.name
             result == IF dsc /\ s8
                       THEN (IF nat.lookup THEN tdo ELSE NoType)
                       ELSE typinf
         IN  [result |-> result, crash |-> result = NoType,
              calls |-> RealTypeCalls(typinf, nat)]
    ELSE [result |-> typinf, crash |-> FALSE, calls |-> {}]

ObjectGetRealTypeInfo(c, typinf, object, nat) ==
    IF typinf = NoType
    THEN [result |-> NoType, crash |-> FALSE, calls |-> {}]
    ELSE IF object # NULL /\ ~c[typinf].is_final
    THEN LET s3  == nat.refNew /\ nat.getTypeRef /\ nat.typeByRef
             tdo == IF s3 THEN nat.tdo ELSE NoType
             dsc == tdo # NoType /\ tdo # typinf /\ ~nat.found
             s8  == nat.descrAlloc /\ nat.describe /\ nat.param /\ nat.schema /\ nat.name
             result == IF dsc /\ s8
                       THEN (IF nat.lookup THEN tdo ELSE NoType)
                       ELSE typinf
         IN  \* MemObjectFree(result->con->env, ...) reads through result
             [result |-> result, crash |-> result = NoType,
              calls |-> RealTypeCalls(typinf, nat)]
    ELSE [result |-> typinf, crash |-> FALSE, calls |-> {}]

(***************************************************************************)
(* ObjectReset, ObjectFree, ObjectInit on the wrappers of insts            *)
(***************************************************************************)
\* own (history): handle was written by the MemObjectNew of ObjectInit
FreshObject ==
    [typinf |-> NoType, handle |-> NULL, hstate |-> "UNKNOWN", type |-> "UNKNOWN",
     tab_ind |-> NULL, idx_ind |-> 0, nslots |-> 0, tmpsizes |-> << >>, own |-> FALSE]

IsPrefix(p, q) == Len(p) <= Len(q) /\ SubSeq(q, 1, Len(p)) = p

\* the wrappers cached (directly or not) under slot i < n of the instance at p
Below(I, p, n) ==
    { q \in DOMAIN I : Len(q) > Len(p) /\ IsPrefix(p, q) /\ q[Len(p) + 1] < n }

ObjectReset(c, I, p) ==
    LET n == nb_cols(c, I[p].typinf) IN
    [q \in DOMAIN I \ Below(I, p, n) |->
        IF q = p
        THEN [I[p] EXCEPT !.tmpsizes = [i \in 1..I[p].nslots |-> IF i <= n THEN 0 ELSE I[p].tmpsizes[i]]]
        ELSE I[q]]

ObjectFree(c, I, p) ==
    IF I[p].hstate = "FETCHED_CLEAN"
    THEN I
    ELSE LET Release(I1) ==
                 IF I[p].hstate = "ALLOCATED_ARRAY"
                 THEN [I1 EXCEPT ![p].nslots = 0, ![p].tmpsizes = << >>]
                 ELSE [q \in DOMAIN I1 \ {p} |-> I1[q]]
         IN  Release(ObjectReset(c, I, p))

\* What ObjectReset and ObjectFree hand back to the allocator: the native handle
\* (MemObjectFree), the arrays objs, tmpbufs, tmpsizes and the wrapper itself (OCI_FREE).
Res(kind, q, own) == [res |-> kind, path |-> q, own |-> own]

\* the calls ObjectFree makes on the wrapper o at q whose hstate is h
WrapperFrees(o, q, h) ==
    { Res("arrays", q, FALSE) }
        \cup (IF h \in { "ALLOCATED", "ALLOCATED_ARRAY" } /\ o.handle # NULL
              THEN { Res("handle", q, o.own) } ELSE {})
        \cup (IF h # "ALLOCATED_ARRAY" THEN { Res("struct", q, FALSE) } ELSE {})

\* a reset that frees the cached wrappers as if they had allocated their handle
ObjectResetFrees_AsAllocated(c, I, p) ==
    UNION { WrapperFrees(I[q], q, "ALLOCATED") :
            q \in Below(I, p, nb_cols(c, I[p].typinf)) }

\* a reset that frees the cached wrappers with the mark they have: ObjectFree leaves
\* a wrapper that is FETCHED_CLEAN alone
ObjectResetFrees_KeepClean(c, I, p) ==
    UNION { IF I[q].hstate = "FETCHED_CLEAN" THEN {} ELSE WrapperFrees(I[q], q, I[q].hstate) :
            q \in Below(I, p, nb_cols(c, I[p].typinf)) }

\* ObjectReset: a cached wrapper that is FETCHED_CLEAN is made FETCHED_DIRTY, then freed
ObjectResetFrees(c, I, p) ==
    UNION { WrapperFrees(I[q], q,
                         IF I[q].hstate = "FETCHED_CLEAN" THEN "FETCHED_DIRTY" ELSE I[q].hstate) :
            q \in Below(I, p, nb_cols(c, I[p].typinf)) }

ObjectFreeFrees(c, I, p) ==
    IF I[p].hstate = "FETCHED_CLEAN"
    THEN {}
    ELSE ObjectResetFrees(c, I, p) \cup WrapperFrees(I[p], p, I[p].hstate)

\* obj = NULL: the caller is left without a pointer to the wrapper at p, freed or not
Forget(I, p) == [q \in { x \in DOMAIN I : ~IsPrefix(p, x) } |-> I[q]]

\* a mark that makes every instance with a new handle ALLOCATED
MarkAllocated_Always(hstate) == "ALLOCATED"

\* the element of an array keeps its mark, any other instance becomes ALLOCATED
MarkAllocated(hstate) == IF hstate = "ALLOCATED_ARRAY" THEN hstate ELSE "ALLOCATED"

\* the end of ObjectInit: the handle, the lifetime and the indicators of the wrapper at
\* p of I2, which ObjectReset has just cleaned; I is what the caller passed
ObjectInitHandle(c, I, I2, p, reset, nat) ==
    LET hasParent == p # << >>
        parent    == SubSeq(p, 1, Len(p) - 1)
        index     == p[Len(p)]
        o2   == I2[p]
        mk   == o2.handle = NULL \/ o2.hstate = "ALLOCATED_ARRAY"
        s3   == mk => nat.objNew
        o3   == IF mk
                THEN [o2 EXCEPT !.hstate = MarkAllocated(@),
                                !.handle = IF nat.objNew THEN RootHandle ELSE @,
                                !.own = IF nat.objNew THEN TRUE ELSE @]
                ELSE [o2 EXCEPT !.hstate = "FETCHED_CLEAN"]
        Typed(o4) ==
            LET gi == s3 /\ (reset \/ o4.tab_ind = NULL)
                s5 == s3 /\ ((gi /\ ~hasParent) => nat.getInd)
                Done(I5) ==
                    IF s5
                    THEN [insts |-> I5, obj |-> TRUE, crash |-> FALSE,
                          freed |-> {}, last |-> I5[p], real |-> NoReal,
                          alloc |-> p \notin DOMAIN I]
                    ELSE [insts |-> Forget(ObjectFree(c, I5, p), p), obj |-> FALSE,
                          crash |-> FALSE, freed |-> ObjectFreeFrees(c, I5, p), last |-> I5[p],
                          real |-> NoReal, alloc |-> p \notin DOMAIN I]
            IN  Done([I2 EXCEPT ![p] =
                        IF ~gi THEN o4
                        ELSE IF hasParent
                        THEN [o4 EXCEPT !.tab_ind = I[parent].tab_ind,
                                        !.idx_ind = IndIndex(I[parent].idx_ind, c,
                                                             I[parent].typinf, index)]
                        ELSE [o4 EXCEPT !.tab_ind = IF nat.getInd THEN IndArray ELSE @]])
    IN  Typed(IF s3 /\ o3.type = "UNKNOWN"
              THEN [o3 EXCEPT !.type = IF hasParent THEN "VALUE" ELSE nat.lifetime]
              ELSE o3)

\* the middle of ObjectInit, once the real type rt is known: objs, tmpbufs, tmpsizes
\* are released when the real type is not the declared one, and allocated when they
\* are NULL; then ObjectReset
ObjectInitSlots(c, I, p, handle, typinf, rt, reset, nat) ==
    LET exists == p \in DOMAIN I
        o0     == IF exists THEN I[p] ELSE FreshObject
        new    == rt # typinf \/ o0.nslots = 0
        keep   == IF new /\ exists THEN DOMAIN I \ Below(I, p, o0.nslots) ELSE DOMAIN I
        Logged(I1, r) == [r EXCEPT !.freed = @ \cup ObjectResetFrees(c, I1, p)]
        Cleaned(I1) ==
            Logged(I1, ObjectInitHandle(c, I, ObjectReset(c, I1, p), p, reset, nat))
        Slotted(o1) == Cleaned([q \in keep \cup {p} |-> IF q = p THEN o1 ELSE I[q]])
    IN  Slotted([o0 EXCEPT !.handle = handle, !.typinf = rt, !.own = FALSE,
                           !.nslots = IF new THEN nb_cols(c, rt) ELSE @,
                           !.tmpsizes = IF new THEN [i \in 1..nb_cols(c, rt) |-> 0] ELSE @])

ObjectInit(c, I, p, handle, typinf, reset, nat) ==
    LET Resolved(real) ==
            IF real.crash
            THEN [insts |-> I, obj |-> FALSE, crash |-> TRUE, freed |-> {}, last |-> FreshObject,
                  real |-> real, alloc |-> FALSE]
            ELSE IF real.result = NoType
            THEN [insts |-> IF p \in DOMAIN I THEN Forget(ObjectFree(c, I, p), p) ELSE I,
                  obj |-> FALSE, crash |-> FALSE,
                  freed |-> IF p \in DOMAIN I THEN ObjectFreeFrees(c, I, p) ELSE {},
                  last |-> IF p \in DOMAIN I THEN I[p] ELSE FreshObject, real |-> real,
                  alloc |-> FALSE]
            ELSE [ObjectInitSlots(c, I, p, handle, typinf, real.result, reset, nat)
                      EXCEPT !.real = real]
    IN  Resolved(ObjectGetRealTypeInfo(c, typinf, handle, nat))

(***************************************************************************)
(* Native memory: one token per byte; a value is read back when all the    *)
(* bytes of its extent still hold it.                                      *)
(***************************************************************************)
Tok(k, v) == [k |-> k, v |-> v]
ZeroByte == Tok("zero", 0)
Garbled  == Tok("garbled", 0)
NoValue  == Tok("null", 0)

WriteBytes(m, addr, size, tok) ==
    [a \in DOMAIN m |-> IF addr <= a /\ a < addr + size THEN tok ELSE m[a]]

ReadBytes(m, addr, size) ==
    IF \A a \in addr..(addr + size - 1) : m[a] = m[addr] THEN m[addr] ELSE Garbled

\* the value v as a value of the numeric kind: a short keeps 16 bits, two's complement
WrapShort(v) ==
    LET m == v % Ub2Mod IN IF 2 * m >= Ub2Mod THEN m - Ub2Mod ELSE m

TranslateNumericValue(v, kind) == IF kind = "SHORT" THEN WrapShort(v) ELSE v

\* the bytes of an attribute: the size ObjectGetAttrInfo gives its column
AttrExtent(col) == ScalarSize(col)

(***************************************************************************)
(* ObjectGetAttrIndex(obj, attr, type, check) and ObjectGetAttr            *)
(***************************************************************************)
RECURSIVE AttrIndexLoop(_, _, _, _, _)
RECURSIVE AttrIndexLoop_NoBreak(_, _, _, _, _)

\* a loop that goes on after a match and keeps the last one
AttrIndexLoop_NoBreak(c, t, attr, type, i) ==
    IF i >= nb_cols(c, t)
    THEN -1
    ELSE LET Rest(r) ==
                 IF r # -1 THEN r
                 ELSE IF /\ (type = "ANY" \/ c[t].cols[i + 1].datatype = type)
                         /\ ostrcasecmp(c[t].cols[i + 1].name, attr)
                 THEN i
                 ELSE -1
         IN  Rest(AttrIndexLoop_NoBreak(c, t, attr, type, (i + 1) % Ub2Mod))

\* for (ub2 i = 0; i < nb_cols; i++): res = i and break at the first column of the
\* datatype asked for (any datatype for type -1) whose name compares equal
AttrIndexLoop(c, t, attr, type, i) ==
    IF i >= nb_cols(c, t)
    THEN -1
    ELSE IF /\ (type = "ANY" \/ c[t].cols[i + 1].datatype = type)
            /\ ostrcasecmp(c[t].cols[i + 1].name, attr)
    THEN i
    ELSE AttrIndexLoop(c, t, attr, type, (i + 1) % Ub2Mod)

ObjectGetAttrIndex(c, t, attr, type) == AttrIndexLoop(c, t, attr, type, 0)

\* if (check && res == -1) ExceptionAttributeNotFound(obj->con, attr)
AttrNotFound(res, check) == check /\ res = -1

ObjectGetAttr(c, L, o, index) ==
    LET At(L1) ==
            [L         |-> L1,
             addr      |-> o.handle + L1[o.typinf].offsets[index + 1],
             ind_index |-> o.idx_ind + ObjectGetIndOffset(c, o.typinf, index)]
    IN  At(IF L[o.typinf].struct_size = 0
           THEN ObjectGetStructSize(c, L, o.typinf).L
           ELSE L)

(***************************************************************************)
(* Setters. Each returns what the call leaves: layout, bytes, indicators,  *)
(* the status returned, the index found and whether the native primitive   *)
(* failed. ok is the outcome of the native assignment primitive.           *)
(***************************************************************************)
Effect(L, m, nd, status, index, fail) ==
    [L |-> L, mem |-> m, ind |-> nd, status |-> status, index |-> index, fail |-> fail]

\* a flag index taken from the start of the array, without the base of the instance
ObjectSetNull_NoBase(c, L, m, nd, o, attr) ==
    LET Found(index) ==
            IF index >= 0
            THEN Effect(L, m,
                        [nd EXCEPT ![ObjectGetIndOffset(c, o.typinf, index)] = OCI_IND_NULL],
                        TRUE, index, FALSE)
            ELSE Effect(L, m, nd, TRUE, index, FALSE)
    IN  Found(ObjectGetAttrIndex(c, o.typinf, attr, "ANY"))

ObjectSetNull(c, L, m, nd, o, attr) ==
    LET Found(index) ==
            IF index >= 0
            THEN Effect(L, m,
                        [nd EXCEPT ![o.idx_ind + ObjectGetIndOffset(c, o.typinf, index)] =
                                       OCI_IND_NULL],
                        TRUE, index, FALSE)
            ELSE Effect(L, m, nd, TRUE, index, FALSE)
    IN  Found(ObjectGetAttrIndex(c, o.typinf, attr, "ANY"))

\* a setter that marks the attribute not null whatever the primitive returned
StoreAttr_MarkAlways(c, L, m, nd, o, index, tok, ok) ==
    LET At(a) ==
            Effect(a.L,
                   IF ok
                   THEN WriteBytes(m, a.addr, AttrExtent(c[o.typinf].cols[index + 1]), tok)
                   ELSE m,
                   [nd EXCEPT ![a.ind_index] = OCI_IND_NOTNULL],
                   ok, index, ~ok)
    IN  At(ObjectGetAttr(c, L, o, index))

\* data = ObjectGetAttr(obj, index, &ind); status = primitive; if (status) *ind = NOTNULL
StoreAttr(c, L, m, nd, o, index, tok, ok) ==
    LET At(a) ==
            Effect(a.L,
                   IF ok
                   THEN WriteBytes(m, a.addr, AttrExtent(c[o.typinf].cols[index + 1]), tok)
                   ELSE m,
                   IF ok THEN [nd EXCEPT ![a.ind_index] = OCI_IND_NOTNULL] ELSE nd,
                   ok, index, ~ok)
    IN  At(ObjectGetAttr(c, L, o, index))

ObjectSetNumberInternal(c, L, m, nd, o, attr, v, ok) ==
    LET Found(index) ==
            IF index >= 0
            THEN StoreAttr(c, L, m, nd, o, index,
                           Tok("num", TranslateNumericValue(v, c[o.typinf].cols[index + 1].subtype)),
                           ok)
            ELSE Effect(L, m, nd, FALSE, index, FALSE)
    IN  Found(ObjectGetAttrIndex(c, o.typinf, attr, "NUMERIC"))

ObjectSetBoolean(c, L, m, nd, o, attr, v) ==
    LET Found(index) ==
            IF index >= 0
            THEN StoreAttr(c, L, m, nd, o, index, Tok("bool", v), TRUE)
            ELSE Effect(L, m, nd, FALSE, index, FALSE)
    IN  Found(ObjectGetAttrIndex(c, o.typinf, attr, "BOOLEAN"))

\* OCI_OBJECT_SET_VALUE and ObjectSetString: an absent value sets the attribute null
OCI_OBJECT_SET_VALUE(c, L, m, nd, o, attr, datatype, kind, v, ok) ==
    IF v = NULL
    THEN ObjectSetNull(c, L, m, nd, o, attr)
    ELSE LET Found(index) ==
                 IF index >= 0
                 THEN StoreAttr(c, L, m, nd, o, index, Tok(kind, v), ok)
                 ELSE Effect(L, m, nd, FALSE, index, FALSE)
         IN  Found(ObjectGetAttrIndex(c, o.typinf, attr, datatype))

ObjectSetString(c, L, m, nd, o, attr, v, ok) ==
    OCI_OBJECT_SET_VALUE(c, L, m, nd, o, attr, "TEXT", "str", v, ok)

ObjectSetRaw(c, L, m, nd, o, attr, v, ok) ==
    OCI_OBJECT_SET_VALUE(c, L, m, nd, o, attr, "RAW", "raw", v, ok)

(***************************************************************************)
(* Getters. Each returns the layout it leaves, the value and the index.    *)
(***************************************************************************)
Got(L, val, status, index, buf) ==
    [L |-> L, val |-> val, status |-> status, index |-> index, buf |-> buf]

ObjectIsNull(c, L, nd, o, attr) ==
    LET Found(index) ==
            IF index >= 0
            THEN Got(L, nd[o.idx_ind + ObjectGetIndOffset(c, o.typinf, index)] # OCI_IND_NOTNULL,
                     TRUE, index, -1)
            ELSE Got(L, FALSE, TRUE, index, -1)
    IN  Found(ObjectGetAttrIndex(c, o.typinf, attr, "ANY"))

\* what the bytes of an attribute read as, for an accessor of the column's kind
LoadAttr(c, m, o, index, addr) ==
    LET col == c[o.typinf].cols[index + 1]
        Read(tok, k) ==
            IF tok.k = k THEN tok
            ELSE IF tok.k = "zero" /\ k \in {"num", "bool"} THEN Tok(k, 0)
            ELSE Garbled
    IN  Read(ReadBytes(m, addr, AttrExtent(col)),
             CASE col.datatype = "NUMERIC" -> "num"
               [] col.datatype = "BOOLEAN" -> "bool"
               [] col.datatype = "TEXT"    -> "str"
               [] col.datatype = "RAW"     -> "raw"
               [] OTHER                    -> "obj")

\* value && ind && (OCI_IND_NULL != *ind): the typed read of OCI_OBJECT_GET_VALUE,
\* ObjectGetBoolean, ObjectGetRaw and the first branch of ObjectGetString
TypedGet(c, L, m, nd, o, attr, datatype) ==
    LET At(index, a) ==
            Got(a.L,
                IF nd[a.ind_index] # OCI_IND_NULL
                THEN LoadAttr(c, m, o, index, a.addr)
                ELSE NoValue,
                TRUE, index, -1)
        Found(index) ==
            IF index >= 0
            THEN At(index, ObjectGetAttr(c, L, o, index))
            ELSE Got(L, NoValue, FALSE, index, -1)
    IN  Found(ObjectGetAttrIndex(c, o.typinf, attr, datatype))

ObjectGetBoolean(c, L, m, nd, o, attr) == TypedGet(c, L, m, nd, o, attr, "BOOLEAN")

ObjectGetRaw(c, L, m, nd, o, attr) == TypedGet(c, L, m, nd, o, attr, "RAW")

\* the text StringGetFromType renders for the storage of a column that is not text
StringGetFromType(tok) == IF tok.k = "garbled" THEN tok ELSE Tok("str", tok.v)

ObjectGetString(c, L, m, nd, o, attr) ==
    IF ObjectGetAttrIndex(c, o.typinf, attr, "TEXT") >= 0
    THEN TypedGet(c, L, m, nd, o, attr, "TEXT")
    ELSE LET At(index, a, col) ==
                 IF col.datatype = "OBJECT"
                 THEN Got(a.L, Tok("str", 0), TRUE, index, index)
                 ELSE IF col.datatype = "RAW" /\ nd[a.ind_index] = OCI_IND_NULL
                 THEN Got(a.L, NoValue, TRUE, index, -1)
                 ELSE Got(a.L, StringGetFromType(LoadAttr(c, m, o, index, a.addr)),
                          TRUE, index, index)
             Found(index) ==
                 IF index >= 0
                 THEN At(index, ObjectGetAttr(c, L, o, index), c[o.typinf].cols[index + 1])
                 ELSE Got(L, NoValue, FALSE, index, -1)
         IN  Found(ObjectGetAttrIndex(c, o.typinf, attr, "ANY"))

\* NumberFromString: the number a text spells
NumberFromString(tok, kind) ==
    IF tok.k = "str" THEN Tok("num", TranslateNumericValue(tok.v, kind)) ELSE NoValue

ObjectGetNumberInternal(c, L, m, nd, o, attr, flag, ok) ==
    LET Number(index, a, tok) ==
            IF nd[a.ind_index] # OCI_IND_NULL
            THEN Got(a.L,
                     IF ~ok THEN NoValue
                     ELSE IF tok.k = "num" THEN Tok("num", TranslateNumericValue(tok.v, flag))
                     ELSE tok,
                     ok, index, -1)
            ELSE Got(a.L, NoValue, FALSE, index, -1)
        At(index, a) == Number(index, a, LoadAttr(c, m, o, index, a.addr))
        Text(s) ==
            Got(s.L, IF ok THEN NumberFromString(s.val, flag) ELSE NoValue,
                ok /\ s.val.k = "str", s.index, -1)
        Found(index) ==
            IF index >= 0
            THEN At(index, ObjectGetAttr(c, L, o, index))
            ELSE IF ObjectGetAttrIndex(c, o.typinf, attr, "TEXT") >= 0
            THEN Text(ObjectGetString(c, L, m, nd, o, attr))
            ELSE Got(L, NoValue, FALSE, -1, -1)
    IN  Found(ObjectGetAttrIndex(c, o.typinf, attr, "NUMERIC"))

(***************************************************************************)
(* ObjectGetObject: the wrapper of a nested object attribute               *)
(***************************************************************************)
\* a get that passes no wrapper to ObjectInit, which then allocates one each time
ObjectGetObject_NewEach(c, L, I, nd, p, attr) ==
    LET o == I[p]
        Wrapped(index, a, r) ==
            [L |-> a.L, insts |-> r.insts, obj |-> r.obj, status |-> r.obj, index |-> index,
             alloc |-> r.alloc]
        At(index, a, t) ==
            IF nd[a.ind_index] # OCI_IND_NULL
            THEN Wrapped(index, a,
                         ObjectInit(c, Forget(I, Append(p, index)), Append(p, index), a.addr,
                                    t, FALSE, NatOk(t)))
            ELSE [L |-> a.L, insts |-> I, obj |-> FALSE, status |-> TRUE, index |-> index,
                  alloc |-> FALSE]
        Found(index) ==
            IF index >= 0
            THEN At(index, ObjectGetAttr(c, L, o, index), c[o.typinf].cols[index + 1].typinf)
            ELSE [L |-> L, insts |-> I, obj |-> FALSE, status |-> FALSE, index |-> index,
                  alloc |-> FALSE]
    IN  Found(ObjectGetAttrIndex(c, o.typinf, attr, "OBJECT"))

ObjectGetObject(c, L, I, nd, p, attr) ==
    LET o == I[p]
        Wrapped(index, a, r) ==
            [L |-> a.L, insts |-> r.insts, obj |-> r.obj, status |-> r.obj, index |-> index,
             alloc |-> r.alloc]
        At(index, a, t) ==
            IF nd[a.ind_index] # OCI_IND_NULL
            THEN Wrapped(index, a,
                         ObjectInit(c, I, Append(p, index), a.addr, t, FALSE, NatOk(t)))
            ELSE [L |-> a.L, insts |-> I, obj |-> FALSE, status |-> TRUE, index |-> index,
                  alloc |-> FALSE]
        Found(index) ==
            IF index >= 0
            THEN At(index, ObjectGetAttr(c, L, o, index), c[o.typinf].cols[index + 1].typinf)
            ELSE [L |-> L, insts |-> I, obj |-> FALSE, status |-> FALSE, index |-> index,
                  alloc |-> FALSE]
    IN  Found(ObjectGetAttrIndex(c, o.typinf, attr, "OBJECT"))

(***************************************************************************)
(* SpecAttr: a root instance of the last type of a catalog, created        *)
(* (all attributes null) or fetched (all attributes not null), and the     *)
(* accessors called on it and on the instances embedded in it.             *)
(***************************************************************************)
NumKinds == { "SHORT", "INT", "BIGINT", "DOUBLE", "FLOAT" }
NumVals(flag) == IF flag \in { "SHORT", "DOUBLE", "FLOAT" } THEN { 1 } ELSE { 40000 }
RefVals == { 1, 2 }

AttrRet(op, p, flag, val, status, index, fail) ==
    [op |-> op, path |-> p, flag |-> flag, val |-> val, status |-> status,
     index |-> index, fail |-> fail]

InitAttr ==
    /\ thr = << >> /\ env = << >>
    /\ cat \in AttrCatalogs
    /\ lay = EmptyLayout(cat)
    /\ first = << >>
    /\ ret = AttrRet("none", << >>, "NONE", NoValue, TRUE, -1, FALSE)
    /\ mem = [a \in 1..MemBytes |-> ZeroByte]
    /\ \E fetched \in BOOLEAN :
         /\ insts = ObjectInit(cat, << >>, << >>, IF fetched THEN RootHandle ELSE NULL,
                               Len(cat), TRUE, NatOk(Len(cat))).insts
         /\ ind = [i \in 0..FlattenedCount(cat, Len(cat)) |->
                      IF fetched THEN OCI_IND_NOTNULL ELSE OCI_IND_NULL]

Store(op, p, flag, val, e) ==
    /\ lay' = e.L /\ mem' = e.mem /\ ind' = e.ind
    /\ ret' = AttrRet(op, p, flag, val, e.status, e.index, e.fail)
    /\ UNCHANGED <<thr, env, cat, first, insts>>

Load(op, p, flag, g) ==
    /\ lay' = g.L
    /\ insts' = IF g.buf >= 0 THEN [insts EXCEPT ![p].tmpsizes[g.buf + 1] = 1] ELSE insts
    /\ ret' = AttrRet(op, p, flag, g.val, g.status, g.index, FALSE)
    /\ UNCHANGED <<thr, env, cat, first, mem, ind>>

SetNumber(p, attr, flag, v, ok) ==
    Store("SetNumber", p, flag, Tok("num", v),
          ObjectSetNumberInternal(cat, lay, mem, ind, insts[p], attr, v, ok))

SetBoolean(p, attr, v) ==
    Store("SetBoolean", p, "NONE", Tok("bool", v),
          ObjectSetBoolean(cat, lay, mem, ind, insts[p], attr, v))

SetString(p, attr, v, ok) ==
    Store("SetString", p, "NONE", IF v = NULL THEN NoValue ELSE Tok("str", v),
          ObjectSetString(cat, lay, mem, ind, insts[p], attr, v, ok))

SetRaw(p, attr, v, ok) ==
    Store("SetRaw", p, "NONE", IF v = NULL THEN NoValue ELSE Tok("raw", v),
          ObjectSetRaw(cat, lay, mem, ind, insts[p], attr, v, ok))

SetNull(p, attr) ==
    Store("SetNull", p, "NONE", NoValue, ObjectSetNull(cat, lay, mem, ind, insts[p], attr))

GetNumber(p, attr, flag, ok) ==
    Load("GetNumber", p, flag, ObjectGetNumberInternal(cat, lay, mem, ind, insts[p], attr, flag, ok))

GetBoolean(p, attr) ==
    Load("GetBoolean", p, "NONE", ObjectGetBoolean(cat, lay, mem, ind, insts[p], attr))

GetString(p, attr) ==
    Load("GetString", p, "NONE", ObjectGetString(cat, lay, mem, ind, insts[p], attr))

GetRaw(p, attr) ==
    Load("GetRaw", p, "NONE", ObjectGetRaw(cat, lay, mem, ind, insts[p], attr))

IsNull(p, attr) ==
    LET Flag(g) == [g EXCEPT !.val = Tok("bool", IF g.val THEN 1 ELSE 0)] IN
    Load("IsNull", p, "NONE", Flag(ObjectIsNull(cat, lay, ind, insts[p], attr)))

GetObject(p, attr) ==
    \E g \in { ObjectGetObject(cat, lay, insts, ind, p, attr) } :
    /\ lay' = g.L
    /\ insts' = g.insts
    /\ ret' = AttrRet("GetObject", p, "NONE", IF g.obj THEN Tok("obj", 0) ELSE NoValue,
                      g.status, g.index, FALSE)
    /\ UNCHANGED <<thr, env, cat, first, mem, ind>>

NextAttr ==
    \/ \E p \in DOMAIN insts : \E attr \in AttrArgs(cat, insts[p].typinf) :
           \E flag \in NumKinds : \E v \in NumVals(flag) : \E ok \in BOOLEAN :
               SetNumber(p, attr, flag, v, ok)
    \/ \E p \in DOMAIN insts : \E attr \in AttrArgs(cat, insts[p].typinf) :
           \E v \in { 0, 1 } : SetBoolean(p, attr, v)
    \/ \E p \in DOMAIN insts : \E attr \in AttrArgs(cat, insts[p].typinf) :
           \E v \in RefVals \cup { NULL } : \E ok \in BOOLEAN : SetString(p, attr, v, ok)
    \/ \E p \in DOMAIN insts : \E attr \in AttrArgs(cat, insts[p].typinf) :
           \E v \in RefVals \cup { NULL } : \E ok \in BOOLEAN : SetRaw(p, attr, v, ok)
    \/ \E p \in DOMAIN insts : \E attr \in AttrArgs(cat, insts[p].typinf) :
           SetNull(p, attr)
    \/ \E p \in DOMAIN insts : \E attr \in AttrArgs(cat, insts[p].typinf) :
           \E flag \in NumKinds : \E ok \in BOOLEAN : GetNumber(p, attr, flag, ok)
    \/ \E p \in DOMAIN insts : \E attr \in AttrArgs(cat, insts[p].typinf) :
           GetBoolean(p, attr)
    \/ \E p \in DOMAIN insts : \E attr \in TextArgs(cat, insts[p].typinf) :
           GetString(p, attr)
    \/ \E p \in DOMAIN insts : \E attr \in AttrArgs(cat, insts[p].typinf) :
           GetRaw(p, attr)
    \/ \E p \in DOMAIN insts : \E attr \in AttrArgs(cat, insts[p].typinf) :
           IsNull(p, attr)
    \/ \E p \in DOMAIN insts : \E attr \in AttrArgs(cat, insts[p].typinf) :
           GetObject(p, attr)

SpecAttr == InitAttr /\ [][NextAttr]_vars

(***************************************************************************)
(* SpecInit: wrappers initialised on fetched handles (ObjectInit), created *)
(* (ObjectCreate) and freed (ObjectFree), with the outcomes of the native  *)
(* calls.                                                                  *)
(***************************************************************************)
\* P(X INTEGER) NOT FINAL, D UNDER P (Y INTEGER)
SubtypeCatalog ==
    LET c1 == << NamedType(<< >>, NoType, FALSE, << NumCol("X", "INT") >>) >>
    IN  Append(c1, NamedType(c1, 1, TRUE, << NumCol("Y", "INT") >>))

InitCatalogs == { SubtypeCatalog, InheritCatalog }

RECURSIVE IsSubtypeOrSelf(_, _, _)
IsSubtypeOrSelf(c, u, t) ==
    u = t \/ (c[u].parent_type # NoType /\ IsSubtypeOrSelf(c, c[u].parent_type, t))

\* the types an instance declared of type t may have at run time
RuntimeTypes(c, t) == { u \in DOMAIN c : IsSubtypeOrSelf(c, u, t) }

InitRet(op, t, handle, nat, r) ==
    [op |-> op, typinf |-> t, handle |-> handle, nat |-> nat, obj |-> r.obj, crash |-> r.crash]

InitInit ==
    /\ thr = << >> /\ env = << >>
    /\ cat \in InitCatalogs
    /\ lay = EmptyLayout(cat)
    /\ first = << >>
    /\ insts = << >> /\ mem = << >> /\ ind = << >>
    /\ ret = InitRet("none", NoType, NULL, NatOk(NoType), [obj |-> FALSE, crash |-> FALSE])

\* ObjectInit(con, obj, handle, typinf, NULL, -1, TRUE) on a fetched handle; obj is the
\* wrapper of an earlier fetch when there is one
FetchObject(t, nat) ==
    \E r \in { ObjectInit(cat, insts, << >>, RootHandle, t, TRUE, nat) } :
    /\ ~ret.crash
    /\ << >> \in DOMAIN insts => insts[<< >>].hstate # "ALLOCATED"
    /\ insts' = r.insts
    /\ ret' = InitRet("ObjectInit", t, RootHandle, nat, r)
    /\ UNCHANGED <<thr, env, cat, lay, first, mem, ind>>

\* ObjectCreate(con, typinf)
CreateObject(t, nat) ==
    \E r \in { ObjectInit(cat, insts, << >>, NULL, t, TRUE, nat) } :
    /\ ~ret.crash
    /\ << >> \notin DOMAIN insts
    /\ insts' = r.insts
    /\ ret' = InitRet("ObjectCreate", t, NULL, nat, r)
    /\ UNCHANGED <<thr, env, cat, lay, first, mem, ind>>

FreeObject ==
    /\ ~ret.crash
    /\ << >> \in DOMAIN insts
    /\ insts' = ObjectFree(cat, insts, << >>)
    /\ ret' = InitRet("ObjectFree", insts[<< >>].typinf, insts[<< >>].handle, NatOk(NoType),
                      [obj |-> FALSE, crash |-> FALSE])
    /\ UNCHANGED <<thr, env, cat, lay, first, mem, ind>>

NextInit ==
    \/ \E t \in DOMAIN cat : \E tdo \in RuntimeTypes(cat, t) : \E found \in BOOLEAN :
           \E step \in NatSteps : FetchObject(t, NatFail(tdo, found, step))
    \/ \E t \in DOMAIN cat : \E step \in { "none", "objNew", "getInd" } :
           CreateObject(t, NatFail(t, FALSE, step))
    \/ FreeObject

SpecInit == InitInit /\ [][NextInit]_vars

(***************************************************************************)
(* Claims on the attribute accessors                                       *)
(***************************************************************************)
SetterOps == { "SetNumber", "SetBoolean", "SetString", "SetRaw" }

\* every attribute of every live instance
Attrs ==
    UNION { { <<q, j>> : j \in 0..(nb_cols(cat, insts[q].typinf) - 1) } : q \in DOMAIN insts }

ColOf(a) == cat[insts[a[1]].typinf].cols[a[2] + 1]

FlagOf(nd, a) ==
    nd[insts[a[1]].idx_ind + ObjectGetIndOffset(cat, insts[a[1]].typinf, a[2])]

BytesOf(L, m, a) ==
    LET g == ObjectGetAttr(cat, L, insts[a[1]], a[2]) IN
    [k \in 0..(AttrExtent(ColOf(a)) - 1) |-> m[g.addr + k]]

\* the getter of the kind of a setter
KindGet(L, m, nd, a, op, flag) ==
    LET o == insts[a[1]]
        n == ColOf(a).name
    IN  CASE op = "SetNumber"  -> ObjectGetNumberInternal(cat, L, m, nd, o, n, flag, TRUE)
          [] op = "SetBoolean" -> ObjectGetBoolean(cat, L, m, nd, o, n)
          [] op = "SetString"  -> ObjectGetString(cat, L, m, nd, o, n)
          [] OTHER             -> ObjectGetRaw(cat, L, m, nd, o, n)

\* the attribute is of the kind of the setter: a numeric setter of kind k goes with a
\* column stored as k, or as a NUMBER
OfKind(a, op, flag) ==
    op = "SetNumber" => ColOf(a).subtype \in { flag, "NUMBER" }

\* C7: for every scalar kind and every attribute of that kind, on a root and on an
\* embedded instance, after a setter that succeeds with value v the next getter of the
\* attribute returns v, ObjectIsNull of it is false, and no other attribute's value or
\* null flag has changed.
C7_SetGetRoundTrip ==
    [][ (/\ ret'.op \in SetterOps /\ ret'.status /\ ret'.index >= 0 /\ ret'.val # NoValue
         /\ OfKind(<<ret'.path, ret'.index>>, ret'.op, ret'.flag))
        => LET a == <<ret'.path, ret'.index>> IN
           /\ KindGet(lay', mem', ind', a, ret'.op, ret'.flag).val = ret'.val
           /\ FlagOf(ind', a) = OCI_IND_NOTNULL
           /\ \A b \in Attrs \ { a } :
                  /\ FlagOf(ind', b) = FlagOf(ind, b)
                  /\ ColOf(b).datatype # "OBJECT" => BytesOf(lay', mem', b) = BytesOf(lay', mem, b)
      ]_vars

\* the getter of the kind of an attribute, and what it observes
AttrGet(L, m, nd, a) ==
    LET o == insts[a[1]]
        col == ColOf(a)
    IN  CASE col.datatype = "NUMERIC" ->
               ObjectGetNumberInternal(cat, L, m, nd, o, col.name,
                                       IF col.subtype = "NUMBER" THEN "INT" ELSE col.subtype,
                                       TRUE).val
          [] col.datatype = "BOOLEAN" -> ObjectGetBoolean(cat, L, m, nd, o, col.name).val
          [] col.datatype = "TEXT"    -> ObjectGetString(cat, L, m, nd, o, col.name).val
          [] col.datatype = "RAW"     -> ObjectGetRaw(cat, L, m, nd, o, col.name).val
          [] OTHER ->
               IF ObjectGetObject(cat, L, insts, nd, a[1], col.name).obj
               THEN Tok("obj", 0) ELSE NoValue

C9_FailedSetKeepsIndicator ==
    [][ (ret'.op \in SetterOps /\ ret'.fail)
        => /\ ~ret'.status
           /\ FlagOf(ind', <<ret'.path, ret'.index>>) = FlagOf(ind, <<ret'.path, ret'.index>>)
      ]_vars

\* the primitive has failed in a setter on a null attribute
C9_Witness ==
    /\ ret.op \in SetterOps /\ ret.fail /\ ~ret.status /\ ret.index >= 0
    /\ FlagOf(ind, <<ret.path, ret.index>>) = OCI_IND_NULL
    /\ \E b \in Attrs : FlagOf(ind, b) = OCI_IND_NOTNULL

(***************************************************************************)
(* Claims on the initialisation                                            *)
(***************************************************************************)
\* the run-time type was obtained, differs from the declared one, is not known, and its
\* describe or its lookup in the catalog fails
ResolutionFails(t, nat) ==
    /\ nat.refNew /\ nat.getTypeRef /\ nat.typeByRef
    /\ nat.tdo # t /\ ~nat.found
    /\ \/ ~(nat.descrAlloc /\ nat.describe /\ nat.param /\ nat.schema /\ nat.name)
       \/ ~nat.lookup

\* C10: when the declared type is non-final, a handle is given, the run-time type differs
\* from the declared one and the describe or the catalog lookup of the run-time type
\* fails, ObjectInit returns no instance: it neither builds the instance on the declared
\* type nor crashes.
C10_ResolutionFailureAborts ==
    (/\ ret.op = "ObjectInit" /\ ret.handle # NULL /\ ~cat[ret.typinf].is_final
     /\ ResolutionFails(ret.typinf, ret.nat))
    => /\ ~ret.obj
       /\ ~ret.crash
       /\ << >> \notin DOMAIN insts

(***************************************************************************)
(* SpecLife: the life of the wrappers of one root instance. The root is     *)
(* created (ObjectCreate), built on a fetched handle or on a slot of a      *)
(* caller-owned array (ObjectInit), its nested objects are wrapped          *)
(* (ObjectGetObject), and wrappers are freed (ObjectFree); ret.freed is     *)
(* what the call handed back to the allocator.                              *)
(***************************************************************************)
\* T1(X INTEGER), T2(Y INTEGER, A T1), T3(Z INTEGER, B T2)
DeepCatalog ==
    LET c1 == << NamedType(<< >>, NoType, TRUE, << NumCol("X", "INT") >>) >>
        c2 == Append(c1, NamedType(c1, NoType, TRUE,
                                   << NumCol("Y", "INT"), AttrCol("A", "OBJECT", "NONE", 1) >>))
    IN  Append(c2, NamedType(c2, NoType, TRUE,
                             << NumCol("Z", "INT"), AttrCol("B", "OBJECT", "NONE", 2) >>))

LifeCatalogs == { DeepCatalog, SubtypeCatalog }

LifeRet(op, p, t, handle, nat, r) ==
    [op |-> op, path |-> p, typinf |-> t, handle |-> handle, nat |-> nat, obj |-> r.obj,
     crash |-> r.crash, freed |-> r.freed, last |-> r.last, real |-> r.real]

NoInit == [obj |-> FALSE, crash |-> FALSE, freed |-> {}, last |-> FreshObject, real |-> NoReal]

InitLife ==
    /\ thr = << >> /\ env = << >>
    /\ cat \in LifeCatalogs
    /\ lay = EmptyLayout(cat)
    /\ first = << >>
    /\ insts = << >>
    /\ mem = << >>
    /\ \E flag \in { OCI_IND_NOTNULL, OCI_IND_NULL } :
           ind = [i \in 0..FlattenedCount(cat, Len(cat)) |-> flag]
    /\ ret = LifeRet("none", << >>, NoType, NULL, NatOk(NoType), NoInit)

\* ObjectCreate(con, typinf)
LifeCreate(t, nat) ==
    \E r \in { ObjectInit(cat, insts, << >>, NULL, t, TRUE, nat) } :
    /\ ~ret.crash
    /\ << >> \notin DOMAIN insts
    /\ insts' = r.insts
    /\ ret' = LifeRet("ObjectCreate", << >>, t, NULL, nat, r)
    /\ UNCHANGED <<thr, env, cat, lay, first, mem, ind>>

\* ObjectInit(con, obj, handle, typinf, NULL, -1, TRUE) on a fetched handle; obj is the
\* wrapper of an earlier fetch when there is one
LifeFetch(t, nat) ==
    \E r \in { ObjectInit(cat, insts, << >>, RootHandle, t, TRUE, nat) } :
    /\ ~ret.crash
    /\ << >> \in DOMAIN insts => insts[<< >>].hstate = "FETCHED_CLEAN"
    /\ insts' = r.insts
    /\ ret' = LifeRet("ObjectInit", << >>, t, RootHandle, nat, r)
    /\ UNCHANGED <<thr, env, cat, lay, first, mem, ind>>

\* the wrapper of a slot of a caller-owned array: hstate is ALLOCATED_ARRAY before
\* ObjectInit(con, obj, NULL, typinf, NULL, -1, TRUE) runs on it, the first time and
\* when the slot is used again
ArraySlot(I) ==
    IF << >> \in DOMAIN I
    THEN I
    ELSE [q \in { << >> } |-> [FreshObject EXCEPT !.hstate = "ALLOCATED_ARRAY"]]

LifeArrayInit(t, nat) ==
    \E r \in { ObjectInit(cat, ArraySlot(insts), << >>, NULL, t, TRUE, nat) } :
    /\ ~ret.crash
    /\ << >> \in DOMAIN insts => insts[<< >>].hstate = "ALLOCATED_ARRAY"
    /\ insts' = r.insts
    /\ ret' = LifeRet("ArrayInit", << >>, t, NULL, nat, r)
    /\ UNCHANGED <<thr, env, cat, lay, first, mem, ind>>

\* ObjectGetObject(obj, attr) on the wrapper at p
LifeGetObject(p, attr) ==
    \E g \in { ObjectGetObject(cat, lay, insts, ind, p, attr) } :
    /\ ~ret.crash
    /\ lay' = g.L
    /\ insts' = g.insts
    /\ ret' = LifeRet("ObjectGetObject", p, insts[p].typinf, insts[p].handle, NatOk(NoType),
                      [obj |-> g.obj, crash |-> FALSE, freed |-> {}, last |-> insts[p],
                       real |-> NoReal])
    /\ UNCHANGED <<thr, env, cat, first, mem, ind>>

\* ObjectFree(obj) on the wrapper at p
LifeFree(p) ==
    /\ ~ret.crash
    /\ insts' = ObjectFree(cat, insts, p)
    /\ ret' = LifeRet("ObjectFree", p, insts[p].typinf, insts[p].handle, NatOk(NoType),
                      [obj |-> FALSE, crash |-> FALSE,
                       freed |-> ObjectFreeFrees(cat, insts, p), last |-> insts[p],
                       real |-> NoReal])
    /\ UNCHANGED <<thr, env, cat, lay, first, mem, ind>>

LifeNat(t) ==
    { NatFail(tdo, found, step) :
        tdo \in RuntimeTypes(cat, t), found \in BOOLEAN, step \in NatSteps }

NextLife ==
    \/ \E t \in DOMAIN cat : \E step \in { "none", "objNew", "getInd" } :
           LifeCreate(t, NatFail(t, FALSE, step))
    \/ \E t \in DOMAIN cat : \E nat \in LifeNat(t) : LifeFetch(t, nat)
    \/ \E t \in DOMAIN cat : \E step \in { "none", "objNew", "getInd" } :
           LifeArrayInit(t, NatFail(t, FALSE, step))
    \/ \E p \in DOMAIN insts : \E attr \in AttrArgs(cat, insts[p].typinf) :
           LifeGetObject(p, attr)
    \/ \E p \in DOMAIN insts : LifeFree(p)

SpecLife == InitLife /\ [][NextLife]_vars

(***************************************************************************)
(* Claims on the life of the wrappers                                      *)
(***************************************************************************)
InitOps == { "ObjectCreate", "ObjectInit" }

\* C11: when a step of ObjectInit fails, for a new instance without handle and for an
\* instance built on a fetched handle alike, ObjectInit returns no instance and the
\* wrapper, its arrays objs, tmpbufs, tmpsizes and the native handle ObjectInit
\* allocated have been released.
C11_FailedInitReleasesAll ==
    (ret.op \in InitOps /\ ~ret.obj /\ ~ret.crash /\ ret.last.typinf # NoType)
        => /\ Res("struct", ret.path, FALSE) \in ret.freed
           /\ Res("arrays", ret.path, FALSE) \in ret.freed
           /\ (ret.last.own /\ ret.last.handle # NULL)
                  => Res("handle", ret.path, TRUE) \in ret.freed

\* C12: whatever ObjectFree and ObjectReset release (in ObjectFree, and in ObjectInit
\* when a wrapper is used again or its construction fails), a native handle among it
\* is the handle of the wrapper the call is about, and ObjectInit allocated it; the
\* handle of a cached wrapper of a nested object and a fetched handle are never
\* released.
C12_BorrowedHandlesNeverFreed ==
    \A f \in ret.freed : f.res = "handle" => (f.own /\ f.path = ret.path)

\* a root that allocated its handle is freed while the wrappers of a nested object and
\* of the object nested in it are cached
C12_Witness ==
    /\ ret.op = "ObjectFree" /\ ret.path = << >>
    /\ Res("handle", << >>, TRUE) \in ret.freed
    /\ \E f \in ret.freed : f.res = "struct" /\ Len(f.path) = 2

\* C13: ObjectFree of the wrapper of an element of a caller-owned array (hstate
\* ALLOCATED_ARRAY) frees neither its native handle nor the wrapper.
C13_ArrayElementOnlyReset ==
    (ret.op = "ObjectFree" /\ ret.last.hstate = "ALLOCATED_ARRAY")
        => \A f \in ret.freed : f.path = ret.path => f.res \notin { "handle", "struct" }

\* C14: when the declared type is final or no handle is given, ObjectGetRealTypeInfo
\* returns the declared type descriptor and makes no native call: no allocation, no
\* MemObjectNew or MemObjectFree (the calls that change the counter of object
\* instances).
C14_FinalOrNoHandleNoCall ==
    (/\ ret.op \in InitOps \cup { "ArrayInit" }
     /\ (cat[ret.typinf].is_final \/ ret.handle = NULL))
        => /\ ret.real.result = ret.typinf
           /\ ret.real.calls = {}
           /\ ~ret.real.crash

\* an instance is built on a fetched handle of a final type
C14_Witness ==
    /\ ret.op = "ObjectInit" /\ ret.handle # NULL /\ ret.obj
    /\ cat[ret.typinf].is_final

\* C15: when the type handle of the instance differs from the one of the declared
\* type and a descriptor of it is already in the type list of the connection,
\* ObjectGetRealTypeInfo returns the descriptor of the run-time type.
C15_CachedRuntimeTypeReturned ==
    (/\ ret.op = "ObjectInit" /\ ret.handle # NULL /\ ~cat[ret.typinf].is_final
     /\ ret.nat.refNew /\ ret.nat.getTypeRef /\ ret.nat.typeByRef
     /\ ret.nat.tdo # ret.typinf /\ ret.nat.found)
        => ret.real.result = ret.nat.tdo

\* C16: the wrapper ObjectInit builds for the nested object in attribute k of a parent
\* shares the indicator array of the parent and has
\* idx_ind = parent.idx_ind + ObjectGetIndOffset(parent.typinf, k); a root has
\* idx_ind = 0 and an embedded instance has idx_ind # 0.
C16_EmbeddedIndicatorBase ==
    \A p \in DOMAIN insts :
        IF p = << >>
        THEN insts[p].idx_ind = 0
        ELSE /\ insts[p].tab_ind = insts[SubSeq(p, 1, Len(p) - 1)].tab_ind
             /\ insts[p].idx_ind =
                    insts[SubSeq(p, 1, Len(p) - 1)].idx_ind
                        + ObjectGetIndOffset(cat, insts[SubSeq(p, 1, Len(p) - 1)].typinf,
                                             p[Len(p)])
             /\ insts[p].idx_ind # 0

\* a wrapper is cached for an object nested in an embedded instance
C16_Witness ==
    \E p \in DOMAIN insts :
        /\ Len(p) = 2
        /\ insts[SubSeq(p, 1, 1)].idx_ind # 0
        /\ ret.op = "ObjectGetObject" /\ ret.obj

(***************************************************************************)
(* SpecRace: two threads run ObjectGetStructSize(typinf, &size, &align) on *)
(* the same type descriptor.  The descriptor fields struct_size, align and *)
(* offsets[] (lay) are shared and read and written without any lock; the   *)
(* locals size, size1, size2, align, next_align, i and the out parameters  *)
(* are private to a thread.  A step is one read or one write of a shared   *)
(* field, with the local computation that follows it.  The call on the     *)
(* parent type and the call on the type of an OBJECT column run in one     *)
(* step.                                                                   *)
(***************************************************************************)
NThreads == 2
Threads == 1..NThreads

MaxRaceCols == 2     \* columns declared in a whole catalog (race specification)

RaceCatalogs == Catalogs(NTypes, ScalarCols, MaxRaceCols)

\* the locals of a thread that enters ObjectGetStructSize(t)
RaceEntry(t) ==
    [pc |-> "entry", t |-> t, i |-> 0, size |-> 0, size1 |-> 0, size2 |-> 0,
     align |-> 0, next_align |-> 0, site |-> "none", a_size |-> 0, a_align |-> 0,
     p_size |-> 0, p_align |-> 0]

InitRace ==
    /\ cat \in RaceCatalogs
    /\ lay = EmptyLayout(cat)
    /\ \E t \in TypeIds : thr = [k \in Threads |-> RaceEntry(t)]
    /\ env = << >>
    /\ first = << >> /\ ret = NoRet
    /\ insts = << >> /\ mem = << >> /\ ind = << >>

\* the column a call of ObjectGetAttrInfo looks at: i for the first own column of a
\* subtype and for column 0, i + 1 for the look ahead of the loop
AttrIndex(me) == IF me.site = "next" THEN me.i + 1 ELSE me.i

\* the assignments that follow the return of ObjectGetAttrInfo at its three call sites
AttrReturn(me, sz, al) ==
    CASE me.site = "own" ->
            [me EXCEPT !.size2 = sz, !.next_align = al,
                       !.size = ROUNDUP(me.size, al), !.pc = "loop"]
      [] me.site = "first" ->
            [me EXCEPT !.size1 = sz, !.align = al, !.pc = "off0"]
      [] OTHER ->
            [me EXCEPT !.size2 = sz, !.align = al,
                       !.size = ROUNDUP(me.size + me.size1, al),
                       !.i = (me.i + 1) % Ub2Mod, !.pc = "loop"]

\* if (typinf->struct_size == 0)
RaceEntryCheck(k) ==
    /\ thr[k].pc = "entry"
    /\ thr' = [thr EXCEPT ![k].pc = IF lay[thr[k].t].struct_size = 0
                                    THEN "parent" ELSE "ret_size"]
    /\ UNCHANGED <<cat, lay, first, ret, insts, mem, ind, env>>

\* if (typinf->parent_type): the call on the parent and the copy of its offsets
RaceParent(k) ==
    /\ thr[k].pc = "parent"
    /\ \E t \in { thr[k].t } :
        IF cat[t].parent_type = NoType
        THEN /\ thr' = [thr EXCEPT ![k].pc = "loop"]
             /\ lay' = lay
        ELSE \E r \in { ObjectGetStructSize(cat, lay, cat[t].parent_type) } :
             /\ lay' = CopyParentOffsets(cat, r.L, t, 0)
             /\ thr' = [thr EXCEPT ![k].size = r.size, ![k].align = r.align,
                                   ![k].i = nb_cols(cat, cat[t].parent_type),
                                   ![k].pc = IF nb_cols(cat, cat[t].parent_type) < nb_cols(cat, t)
                                             THEN "set_align" ELSE "loop"]
    /\ UNCHANGED <<cat, first, ret, insts, mem, ind, env>>

\* typinf->align = align; then ObjectGetAttrInfo(typinf, i, &size2, &next_align)
RaceSetAlign(k) ==
    /\ thr[k].pc = "set_align"
    /\ lay' = SetAlign(lay, thr[k].t, thr[k].align)
    /\ thr' = [thr EXCEPT ![k].pc = "attr", ![k].site = "own", ![k].a_align = 0]
    /\ UNCHANGED <<cat, first, ret, insts, mem, ind, env>>

\* the head of the for loop: for i > 0, size1 = size2 and offsets[i] = size
RaceLoop(k) ==
    /\ thr[k].pc = "loop"
    /\ \E me \in { thr[k] } :
        IF me.i >= nb_cols(cat, me.t)
        THEN /\ thr' = [thr EXCEPT ![k].pc = "final"]
             /\ lay' = lay
        ELSE IF me.i > 0
        THEN /\ lay' = SetOffset(lay, me.t, me.i, me.size)
             /\ thr' = [thr EXCEPT ![k].size1 = me.size2, ![k].pc = "attr",
                                   ![k].site = "next", ![k].a_align = me.align]
        ELSE /\ thr' = [thr EXCEPT ![k].pc = "attr", ![k].site = "first",
                                   ![k].a_align = me.align]
             /\ lay' = lay
    /\ UNCHANGED <<cat, first, ret, insts, mem, ind, env>>

\* typinf->offsets[i] = 0 for column 0, then the look ahead
RaceOffsetZero(k) ==
    /\ thr[k].pc = "off0"
    /\ lay' = SetOffset(lay, thr[k].t, thr[k].i, 0)
    /\ thr' = [thr EXCEPT ![k].pc = "attr", ![k].site = "next",
                          ![k].a_align = thr[k].align]
    /\ UNCHANGED <<cat, first, ret, insts, mem, ind, env>>

\* ObjectGetAttrInfo up to its test `*p_align > typinf->align`
RaceAttrInfo(k) ==
    /\ thr[k].pc = "attr"
    /\ \E me \in { thr[k] } :
        IF AttrIndex(me) >= nb_cols(cat, me.t)
        THEN /\ thr' = [thr EXCEPT ![k] = AttrReturn(me, 0, me.a_align)]
             /\ lay' = lay
        ELSE \E col \in { cat[me.t].cols[AttrIndex(me) + 1] } :
             \E r \in { IF col.datatype = "OBJECT"
                        THEN ObjectGetStructSize(cat, lay, col.typinf)
                        ELSE Out(lay, ScalarSize(col), ScalarAlign(col)) } :
             /\ lay' = r.L
             /\ thr' = [thr EXCEPT ![k] =
                          IF r.align > r.L[me.t].align
                          THEN [me EXCEPT !.a_size = r.size, !.a_align = r.align,
                                          !.pc = "attr_wr"]
                          ELSE AttrReturn(me, r.size, r.align)]
    /\ UNCHANGED <<cat, first, ret, insts, mem, ind, env>>

\* typinf->align = *p_align, and the return of ObjectGetAttrInfo
RaceAttrWrite(k) ==
    /\ thr[k].pc = "attr_wr"
    /\ lay' = SetAlign(lay, thr[k].t, thr[k].a_align)
    /\ thr' = [thr EXCEPT ![k] = AttrReturn(thr[k], thr[k].a_size, thr[k].a_align)]
    /\ UNCHANGED <<cat, first, ret, insts, mem, ind, env>>

\* typinf->struct_size = ROUNDUP(size + size2, typinf->align)
RaceFinal(k) ==
    /\ thr[k].pc = "final"
    /\ lay' = SetSize(lay, thr[k].t,
                      ROUNDUP(thr[k].size + thr[k].size2, lay[thr[k].t].align))
    /\ thr' = [thr EXCEPT ![k].pc = "ret_size"]
    /\ UNCHANGED <<cat, first, ret, insts, mem, ind, env>>

\* *p_size = typinf->struct_size
RaceRetSize(k) ==
    /\ thr[k].pc = "ret_size"
    /\ thr' = [thr EXCEPT ![k].p_size = lay[thr[k].t].struct_size, ![k].pc = "ret_align"]
    /\ UNCHANGED <<cat, lay, first, ret, insts, mem, ind, env>>

\* *p_align = typinf->align
RaceRetAlign(k) ==
    /\ thr[k].pc = "ret_align"
    /\ thr' = [thr EXCEPT ![k].p_align = lay[thr[k].t].align, ![k].pc = "done"]
    /\ UNCHANGED <<cat, lay, first, ret, insts, mem, ind, env>>

NextRace ==
    \/ \E k \in Threads : RaceEntryCheck(k)
    \/ \E k \in Threads : RaceParent(k)
    \/ \E k \in Threads : RaceSetAlign(k)
    \/ \E k \in Threads : RaceLoop(k)
    \/ \E k \in Threads : RaceOffsetZero(k)
    \/ \E k \in Threads : RaceAttrInfo(k)
    \/ \E k \in Threads : RaceAttrWrite(k)
    \/ \E k \in Threads : RaceFinal(k)
    \/ \E k \in Threads : RaceRetSize(k)
    \/ \E k \in Threads : RaceRetAlign(k)

SpecRace == InitRace /\ [][NextRace]_vars

\* what one call alone computes for the type on a fresh descriptor
Sequential(t) == ObjectGetStructSize(cat, EmptyLayout(cat), t)

\* C17: two threads that run ObjectGetStructSize concurrently on a type whose layout
\* is not yet computed both return the size and the alignment of one sequential
\* computation, and the descriptor finally caches the size, alignment and offsets of
\* that computation.
C17_RaceGivesSequentialLayout ==
    \A k \in Threads :
        thr[k].pc = "done" =>
            /\ thr[k].p_size = Sequential(thr[k].t).size
            /\ thr[k].p_align = Sequential(thr[k].t).align
            /\ (\A j \in Threads : thr[j].pc = "done")
                   => lay[thr[k].t] = Sequential(thr[k].t).L[thr[k].t]

(***************************************************************************)
(* SpecMem: threads call the counted allocators of memory.c.  Every        *)
(* counter update is OCI_MUTEXED_CALL(counter op= delta): the mutex is     *)
(* taken and released only when OCILib.mem_mutex is not NULL, and the      *)
(* update itself is a load of the counter followed by a store.             *)
(***************************************************************************)
MaxMemCalls == 2     \* calls each thread makes
BlockSize == 1       \* bytes of a block of MemAlloc, in units
ArrayElems == 2      \* nb_elem of a descriptor array

MemMutex == 1        \* the handle of the memory mutex
NoOwner == 0

Counters == { "mem_bytes_lib", "mem_bytes_oci", "nb_hndlp", "nb_descp", "nb_objinst" }

MemOp(fn, c, d) == [fn |-> fn, c |-> c, d |-> d]

\* the allocators and the update each of them applies
MemOps ==
    { MemOp("MemAlloc", "mem_bytes_lib", BlockSize),
      MemOp("MemAlloc", "mem_bytes_oci", BlockSize),
      MemOp("MemFree", "mem_bytes_lib", 0 - BlockSize),
      MemOp("MemFree", "mem_bytes_oci", 0 - BlockSize),
      MemOp("MemHandleAlloc", "nb_hndlp", 1),
      MemOp("MemHandleFree", "nb_hndlp", -1),
      MemOp("MemDescriptorAlloc", "nb_descp", 1),
      MemOp("MemDescriptorFree", "nb_descp", -1),
      MemOp("MemDescriptorArrayAlloc", "nb_descp", ArrayElems),
      MemOp("MemDescriptorArrayFree", "nb_descp", 0 - ArrayElems),
      MemOp("MemObjectNew", "nb_objinst", 1),
      MemOp("MemObjectFree", "nb_objinst", -1) }

MemIdle(left) == [pc |-> "idle", c |-> "none", d |-> 0, reg |-> 0, left |-> left]

\* the globals after the library is initialised, with or without a memory mutex;
\* applied (the sum of the updates made so far) and live (what is allocated and may
\* be freed) are history
InitMem ==
    /\ \E m \in { NULL, MemMutex } :
           env = [mem_mutex |-> m, owner |-> NoOwner,
                  cnt |-> [c \in Counters |-> 0],
                  applied |-> [c \in Counters |-> 0],
                  live |-> [c \in Counters |-> 0]]
    /\ thr = [k \in Threads |-> MemIdle(MaxMemCalls)]
    /\ cat = << >> /\ lay = << >> /\ first = << >> /\ ret = NoRet
    /\ insts = << >> /\ mem = << >> /\ ind = << >>

\* MutexAcquire: waits until the mutex is free
MutexAcquire(e, k) == [ok |-> e.owner = NoOwner, env |-> [e EXCEPT !.owner = k]]

MutexRelease(e) == [e EXCEPT !.owner = NoOwner]

\* a macro that never takes the mutex
MutexedLock_Never(e, k) == [ok |-> TRUE, env |-> e]

\* if (OCILib.mem_mutex) MutexAcquire(OCILib.mem_mutex)
MutexedLock(e, k) ==
    IF e.mem_mutex # NULL THEN MutexAcquire(e, k) ELSE [ok |-> TRUE, env |-> e]

\* if (OCILib.mem_mutex) MutexRelease(OCILib.mem_mutex)
MutexedUnlock(e) == IF e.mem_mutex # NULL THEN MutexRelease(e) ELSE e

\* a thread enters an allocator and reaches its OCI_MUTEXED_CALL; a free needs
\* something allocated
MemCall(k, op) ==
    /\ thr[k].pc = "idle" /\ thr[k].left > 0
    /\ op.d < 0 => env.live[op.c] >= 0 - op.d
    /\ thr' = [thr EXCEPT ![k] = [pc |-> "lock", c |-> op.c, d |-> op.d,
                                  reg |-> 0, left |-> thr[k].left - 1]]
    /\ env' = IF op.d < 0 THEN [env EXCEPT !.live[op.c] = @ + op.d] ELSE env
    /\ UNCHANGED <<cat, lay, first, ret, insts, mem, ind>>

MemLock(k) ==
    /\ thr[k].pc = "lock"
    /\ \E r \in { MutexedLock(env, k) } :
        /\ r.ok
        /\ env' = r.env
    /\ thr' = [thr EXCEPT ![k].pc = "load"]
    /\ UNCHANGED <<cat, lay, first, ret, insts, mem, ind>>

\* (exp): the read of the counter
MemLoad(k) ==
    /\ thr[k].pc = "load"
    /\ thr' = [thr EXCEPT ![k].reg = env.cnt[thr[k].c], ![k].pc = "store"]
    /\ UNCHANGED <<cat, lay, first, ret, insts, mem, ind, env>>

\* (exp): the write of the counter
MemStore(k) ==
    /\ thr[k].pc = "store"
    /\ env' = [env EXCEPT !.cnt[thr[k].c] = thr[k].reg + thr[k].d,
                          !.applied[thr[k].c] = @ + thr[k].d]
    /\ thr' = [thr EXCEPT ![k].pc = "unlock"]
    /\ UNCHANGED <<cat, lay, first, ret, insts, mem, ind>>

MemUnlock(k) ==
    /\ thr[k].pc = "unlock"
    /\ \E e \in { MutexedUnlock(env) } :
        env' = IF thr[k].d > 0 THEN [e EXCEPT !.live[thr[k].c] = @ + thr[k].d] ELSE e
    /\ thr' = [thr EXCEPT ![k].pc = "idle"]
    /\ UNCHANGED <<cat, lay, first, ret, insts, mem, ind>>

NextMem ==
    \/ \E k \in Threads : \E op \in MemOps : MemCall(k, op)
    \/ \E k \in Threads : MemLock(k)
    \/ \E k \in Threads : MemLoad(k)
    \/ \E k \in Threads : MemStore(k)
    \/ \E k \in Threads : MemUnlock(k)

SpecMem == InitMem /\ [][NextMem]_vars

AllIdle == \A k \in Threads : thr[k].pc = "idle"

\* C18: (as stated) for any interleaving of threads in the Mem* functions, once they
\* have returned every counter equals its initial value plus the sum of the
\* increments and decrements applied: no update is lost.
C18_NoLostUpdate ==
    AllIdle => \A c \in Counters : env.cnt[c] = env.applied[c]

\* C18 (amended): when OCILib.mem_mutex is set, every load and store of a counter is
\* made by the thread that holds the mutex, and once the threads have returned
\* every counter equals its initial value plus the sum of the updates applied.
C18_MutexedNoLostUpdate ==
    env.mem_mutex # NULL =>
        /\ \A k \in Threads :
               thr[k].pc \in { "load", "store", "unlock" } => env.owner = k
        /\ AllIdle => \A c \in Counters : env.cnt[c] = env.applied[c]

\* a thread waits for the mutex while another one is between the load and the store
\* of the same counter
C18_Witness ==
    /\ env.mem_mutex # NULL
    /\ \E a, b \in Threads :
        /\ thr[a].pc = "store" /\ thr[b].pc = "lock"
        /\ thr[a].c = thr[b].c
        /\ env.applied[thr[a].c] # 0

(***************************************************************************)
(* SpecNull: the getters, on every attribute name, of an instance whose    *)
(* attributes are null or are made null again by ObjectSetNull.            *)
(***************************************************************************)
NextNull ==
    \/ \E p \in DOMAIN insts : \E attr \in AttrArgs(cat, insts[p].typinf) :
           SetNull(p, attr)
    \/ \E p \in DOMAIN insts : \E attr \in AttrArgs(cat, insts[p].typinf) :
           \E flag \in NumKinds : GetNumber(p, attr, flag, TRUE)
    \/ \E p \in DOMAIN insts : \E attr \in AttrArgs(cat, insts[p].typinf) :
           GetBoolean(p, attr)
    \/ \E p \in DOMAIN insts : \E attr \in AttrArgs(cat, insts[p].typinf) :
           GetString(p, attr)
    \/ \E p \in DOMAIN insts : \E attr \in AttrArgs(cat, insts[p].typinf) :
           GetRaw(p, attr)
    \/ \E p \in DOMAIN insts : \E attr \in AttrArgs(cat, insts[p].typinf) :
           GetObject(p, attr)

SpecNull == InitAttr /\ [][NextNull]_vars

GetterOps == { "GetNumber", "GetBoolean", "GetString", "GetRaw", "GetObject" }

\* C19: a getter called on an existing attribute whose null flag is null returns the
\* neutral value (no string, no object, the 0 or FALSE the caller's variable starts
\* with) and neither creates nor replaces a wrapper.
C19_NullGetsNeutral ==
    [][ (/\ ret'.op \in GetterOps /\ ret'.index >= 0
         /\ FlagOf(ind, <<ret'.path, ret'.index>>) = OCI_IND_NULL)
            => /\ ret'.val = NoValue
               /\ DOMAIN insts' = DOMAIN insts ]_vars

\* C20: a setter, with a present or an absent value, or ObjectSetNull called with a
\* name that matches no column of the type of the instance returns failure and changes
\* no null flag and no byte of the native struct.
C20_UnknownAttributeFails ==
    [][ (ret'.op \in SetterOps \cup { "SetNull" } /\ ret'.index < 0)
            => /\ ~ret'.status
               /\ ind' = ind
               /\ mem' = mem ]_vars

(***************************************************************************)
(* SpecIndex: ObjectGetAttrIndex on the instance of a type whose columns   *)
(* may bear names that differ only in case ("a" and "A" are two quoted     *)
(* identifiers) and different datatypes.                                   *)
(***************************************************************************)
MaxIndexCols == 3    \* columns of the type (index specification)

IndexNames == { "A", "a", "B" }
IndexTypes == { "NUMERIC", "TEXT" }

IndexCatalogs ==
    { << NamedType(<< >>, NoType, TRUE, cols) >> :
        cols \in UNION { [1..n -> { AttrCol(nm, dt, "NONE", NoType) :
                                        nm \in IndexNames, dt \in IndexTypes }] :
                           n \in 1..MaxIndexCols } }

InitIndex ==
    /\ thr = << >> /\ env = << >>
    /\ cat \in IndexCatalogs
    /\ lay = EmptyLayout(cat)
    /\ first = << >>
    /\ insts = ObjectInit(cat, << >>, << >>, NULL, 1, TRUE, NatOk(1)).insts
    /\ mem = << >> /\ ind = << >>
    /\ ret = [op |-> "none", attr |-> "none", type |-> "ANY", check |-> FALSE,
              val |-> -1, err |-> FALSE]

CallGetAttrIndex(attr, type, check) ==
    /\ \E res \in { ObjectGetAttrIndex(cat, insts[<< >>].typinf, attr, type) } :
           ret' = [op |-> "GetAttrIndex", attr |-> attr, type |-> type, check |-> check,
                   val |-> res, err |-> AttrNotFound(res, check)]
    /\ UNCHANGED <<thr, env, cat, lay, first, insts, mem, ind>>

NextIndex ==
    \E attr \in { "a", "A", "b", "nosuch" } :
        \E type \in IndexTypes \cup { "ANY", "RAW" } :
            \E check \in BOOLEAN : CallGetAttrIndex(attr, type, check)

SpecIndex == InitIndex /\ [][NextIndex]_vars

\* the columns that qualify for the last call
Qualifying ==
    { i \in 0..(nb_cols(cat, 1) - 1) :
        /\ ToUpper(cat[1].cols[i + 1].name) = ToUpper(ret.attr)
        /\ ret.type \in { "ANY", cat[1].cols[i + 1].datatype } }

\* C21: ObjectGetAttrIndex returns the smallest index of a column whose name equals
\* the requested name ignoring case and whose datatype is the requested one (any for
\* the filter -1), and -1 when no column qualifies; the not-found error is recorded
\* exactly when the result is -1 and check is TRUE.
C21_SmallestQualifyingIndex ==
    ret.op = "GetAttrIndex" =>
        /\ (Qualifying = {} => ret.val = -1)
        /\ (Qualifying # {} => ret.val \in Qualifying /\ \A j \in Qualifying : ret.val <= j)
        /\ (ret.err <=> (ret.val = -1 /\ ret.check))

\* the datatype filter has skipped a column of that name, and a later column qualifies
\* as well as the one returned
C21_Witness ==
    /\ ret.op = "GetAttrIndex" /\ ret.val = 1
    /\ ToUpper(cat[1].cols[1].name) = ToUpper(ret.attr)
    /\ Cardinality(Qualifying) = 2

(***************************************************************************)
(* ObjectToText(obj, size, str): the text is kept as the sequence of the   *)
(* pieces appended to str, len as the sum of what the appends return.      *)
(* fail is the column (counted from 1, 0 for none) whose rendering by      *)
(* StringGetFromType records an error.                                     *)
(***************************************************************************)
OCI_STRING_NULL_SIZE == 4

Piece(kind, col, val, quoted) == [kind |-> kind, col |-> col, val |-> val, quoted |-> quoted]

Literal(kind) == Piece(kind, -1, NoValue, FALSE)

\* what StringAddToBuffer and StringGetFromType return for a piece: the characters
\* written; a rendered value takes one character, two more with its quotes
PieceLen(pc) ==
    CASE pc.kind = "name"  -> pc.col
      [] pc.kind = "open"  -> 1
      [] pc.kind = "close" -> 1
      [] pc.kind = "sep"   -> 2
      [] pc.kind = "null"  -> OCI_STRING_NULL_SIZE
      [] OTHER             -> IF pc.quoted THEN 3 ELSE 1

Emit(st, pc) == [st EXCEPT !.text = Append(@, pc), !.len = @ + PieceLen(pc)]

\* the switch on the datatype of column i: the data to render and the quote flag
ToTextData(c, m, nd, st, p, i) ==
    LET o == st.insts[p]
        col == c[o.typinf].cols[i + 1]
        Data(L, I, data, quote) == [L |-> L, insts |-> I, data |-> data, quote |-> quote]
        Text(a, g) ==
            IF nd[a.ind_index] # OCI_IND_NULL
            THEN Data(g.L, st.insts, g.val, TRUE)
            ELSE Data(a.L, st.insts, NoValue, TRUE)
        Plain(a) == Data(a.L, st.insts, LoadAttr(c, m, o, i, a.addr), FALSE)
        Raw(a) ==
            Data(a.L, st.insts,
                 IF nd[a.ind_index] # OCI_IND_NULL THEN LoadAttr(c, m, o, i, a.addr) ELSE NoValue,
                 TRUE)
        Nested(g) == Data(g.L, g.insts, IF g.obj THEN Tok("obj", g.index) ELSE NoValue, FALSE)
    IN  CASE col.datatype = "TEXT" ->
                Text(ObjectGetAttr(c, st.L, o, i), ObjectGetString(c, st.L, m, nd, o, col.name))
          [] col.datatype \in { "BOOLEAN", "NUMERIC" } -> Plain(ObjectGetAttr(c, st.L, o, i))
          [] col.datatype = "RAW" -> Raw(ObjectGetAttr(c, st.L, o, i))
          [] OTHER -> Nested(ObjectGetObject(c, st.L, st.insts, nd, p, col.name))

\* one turn of the for loop
ToTextColumn(c, m, nd, st, p, i, fail) ==
    LET o == st.insts[p]
        col == c[o.typinf].cols[i + 1]
        Sep(s, quote) ==
            IF s.status /\ i < nb_cols(c, o.typinf) - 1 THEN Emit(s, Literal("sep")) ELSE s
        Rendered(d, s) ==
            IF ~(d.data # NoValue \/ col.datatype = "TEXT")
            THEN [s EXCEPT !.status = FALSE]
            ELSE IF d.data # NoValue
            THEN [Emit(s, Piece("value", i, d.data, d.quote)) EXCEPT !.status = (fail # i + 1)]
            ELSE Emit(s, Literal("null"))
        Value(d) == Sep(Rendered(d, [st EXCEPT !.L = d.L, !.insts = d.insts]), d.quote)
    IN  IF ObjectIsNull(c, st.L, nd, o, col.name).val
        THEN Sep(Emit(st, Literal("null")), TRUE)
        ELSE Value(ToTextData(c, m, nd, st, p, i))

RECURSIVE ToTextLoop(_, _, _, _, _, _, _)
ToTextLoop(c, m, nd, st, p, i, fail) ==
    IF i < nb_cols(c, st.insts[p].typinf) /\ st.status
    THEN ToTextLoop(c, m, nd, ToTextColumn(c, m, nd, st, p, i, fail), p, i + 1, fail)
    ELSE st

ObjectToText(c, L, I, m, nd, p, fail) ==
    LET Closed(st) ==
            IF st.status
            THEN [L |-> st.L, insts |-> st.insts, status |-> TRUE,
                  text |-> Append(st.text, Literal("close")), size |-> st.len + 1]
            ELSE [L |-> st.L, insts |-> st.insts, status |-> FALSE, text |-> << >>, size |-> 0]
    IN  Closed(ToTextLoop(c, m, nd,
                   [L |-> L, insts |-> I, status |-> TRUE, len |-> I[p].typinf + 1,
                    text |-> << Piece("name", I[p].typinf, NoValue, FALSE), Literal("open") >>],
                   p, 0, fail))

(***************************************************************************)
(* SpecText: ObjectToText on fetched instances, every combination of null  *)
(* flags, and on the wrappers of nested objects it caches.                 *)
(***************************************************************************)
\* the catalogs of the accessors, and T("A" INTEGER, "a" INTEGER)
TextCatalogs ==
    AttrCatalogs \cup { FlatCatalog(NumCol("A", "INT"), NumCol("a", "INT")) }

InitText ==
    /\ thr = << >> /\ env = << >>
    /\ cat \in TextCatalogs
    /\ lay = EmptyLayout(cat)
    /\ first = << >>
    /\ mem = [a \in 1..MemBytes |-> ZeroByte]
    /\ insts = ObjectInit(cat, << >>, << >>, RootHandle, Len(cat), TRUE, NatOk(Len(cat))).insts
    /\ ind \in { f \in [0..FlattenedCount(cat, Len(cat)) -> { OCI_IND_NOTNULL, OCI_IND_NULL }] :
                   f[0] = OCI_IND_NOTNULL }
    /\ ret = [op |-> "none", path |-> << >>, fail |-> 0, status |-> TRUE,
              text |-> << >>, size |-> 0]

ToText(p, fail) ==
    /\ \E r \in { ObjectToText(cat, lay, insts, mem, ind, p, fail) } :
        /\ lay' = r.L
        /\ insts' = r.insts
        /\ ret' = [op |-> "ToText", path |-> p, fail |-> fail, status |-> r.status,
                   text |-> r.text, size |-> r.size]
    /\ UNCHANGED <<thr, env, cat, first, mem, ind>>

NextText ==
    \E p \in DOMAIN insts : \E fail \in 0..nb_cols(cat, insts[p].typinf) : ToText(p, fail)

SpecText == InitText /\ [][NextText]_vars

RECURSIVE TextLen(_)
TextLen(text) == IF text = << >> THEN 0 ELSE PieceLen(Head(text)) + TextLen(Tail(text))

Unquoted == { "NUMERIC", "BOOLEAN", "OBJECT", "COLLECTION" }

\* the piece at position k of the text is the rendering of column i
RendersColumn(pc, p, i) ==
    IF FlagOf(ind, <<p, i>>) # OCI_IND_NOTNULL
    THEN pc.kind = "null"
    ELSE /\ pc.kind = "value" /\ pc.col = i
         /\ pc.quoted = (ColOf(<<p, i>>).datatype \notin Unquoted)

\* C22: on success ObjectToText writes the type name, "(", one rendering per column in
\* declaration order separated by ", ", and ")"; an attribute whose null flag is null
\* renders as the literal NULL, numeric, boolean, nested object and collection values
\* unquoted and the other kinds quoted, and *size is the length of the text; on
\* failure *size is 0 and the text is empty.
C22_TextOfEveryColumn ==
    ret.op = "ToText" =>
        IF ret.status
        THEN LET n == nb_cols(cat, insts[ret.path].typinf) IN
             /\ Len(ret.text) = 2 * n + 2
             /\ ret.text[1].kind = "name" /\ ret.text[2].kind = "open"
             /\ \A i \in 0..(n - 1) : RendersColumn(ret.text[3 + 2 * i], ret.path, i)
             /\ \A i \in 0..(n - 2) : ret.text[4 + 2 * i].kind = "sep"
             /\ ret.text[2 * n + 2].kind = "close"
             /\ ret.size = TextLen(ret.text)
        ELSE ret.size = 0 /\ ret.text = << >>

(***************************************************************************)
(* Claims on the layout rule                                               *)
(***************************************************************************)
\* size and alignment of column i (from 0) of type t by the rule of ObjectGetAttrInfo:
\* the table of the datatype, or what was computed for the nested type
ColSize(t, i) ==
    IF cat[t].cols[i + 1].datatype = "OBJECT"
    THEN lay[cat[t].cols[i + 1].typinf].struct_size
    ELSE ScalarSize(cat[t].cols[i + 1])

ColAlign(t, i) ==
    IF cat[t].cols[i + 1].datatype = "OBJECT"
    THEN lay[cat[t].cols[i + 1].typinf].align
    ELSE ScalarAlign(cat[t].cols[i + 1])

\* column i + 1 sits at the end of column i, rounded up to its own alignment
LookAhead(t, i) ==
    lay[t].offsets[i + 2] = ROUNDUP(lay[t].offsets[i + 1] + ColSize(t, i), ColAlign(t, i + 1))

\* C23: for a root type, ObjectGetStructSize sets offsets[0] = 0 and, for every i with
\* i + 1 < nb_cols, offsets[i+1] = roundup(offsets[i] + size(column i), align(column i+1)).
C23_RootOffsets ==
    \A t \in TypeIds :
        (Called(t) /\ ~Derived(t)) =>
            /\ lay[t].offsets[1] = 0
            /\ \A i \in 0..(nb_cols(cat, t) - 2) : LookAhead(t, i)

C23_Witness ==
    \E t \in TypeIds :
        /\ Called(t) /\ ~Derived(t)
        /\ nb_cols(cat, t) >= 2
        /\ cat[t].cols[1].datatype = "OBJECT"
        /\ lay[t].offsets[2] = 24
        /\ ret.t = t

\* C24: for a derived type D with parent P and at least one own column,
\* offsets_D[P.nb_cols] = roundup(struct_size(P), align(first own column of D)), and the
\* following own columns are laid out by the look-ahead rule of a root type.
C24_DerivedOffsets ==
    \A d \in TypeIds :
        (Called(d) /\ Derived(d) /\ nb_cols(cat, d) > nb_cols(cat, Parent(d))) =>
            LET n == nb_cols(cat, Parent(d)) IN
            /\ lay[d].offsets[n + 1] = ROUNDUP(lay[Parent(d)].struct_size, ColAlign(d, n))
            /\ \A i \in n..(nb_cols(cat, d) - 2) : LookAhead(d, i)

C24_Witness ==
    \E d \in TypeIds :
        /\ Called(d) /\ Derived(d)
        /\ nb_cols(cat, d) = nb_cols(cat, Parent(d)) + 2
        /\ lay[Parent(d)].struct_size = 22
        /\ lay[d].offsets[2] = 24
        /\ lay[d].offsets[3] = 32
        /\ ret.t = d

RECURSIVE MaxAlign(_, _)
MaxAlign(t, n) ==
    IF n = 0 THEN 0
    ELSE LET m == MaxAlign(t, n - 1) IN
         IF ColAlign(t, n - 1) > m THEN ColAlign(t, n - 1) ELSE m

\* C25: after ObjectGetStructSize on a type with at least one column, the returned align
\* is the maximum alignment over all its columns (inherited and nested included) and
\* struct_size = roundup(offsets[last] + size(last column), that maximum), also for a
\* derived type that adds no column to its parent.
C25_AlignAndSize ==
    (ret.op = "GetStructSize" /\ nb_cols(cat, ret.t) >= 1) =>
        LET n == nb_cols(cat, ret.t) IN
        /\ ret.align = MaxAlign(ret.t, n)
        /\ ret.size = lay[ret.t].struct_size
        /\ ret.size = ROUNDUP(lay[ret.t].offsets[n] + ColSize(ret.t, n - 1), MaxAlign(ret.t, n))

(***************************************************************************)
(* Claims on ObjectInit and ObjectReset                                    *)
(***************************************************************************)
InitDone == ret.op \in InitOps \cup { "ArrayInit" } /\ ret.obj /\ ret.path \in DOMAIN insts

\* the instance owns a native instance that the MemObjectNew of ObjectInit allocated
OwnsFresh(o) == o.own /\ o.handle # NULL

\* C26: after a successful ObjectInit the instance is marked OCI_OBJECT_ALLOCATED and
\* owns a freshly allocated native instance exactly when no handle was supplied or the
\* instance is a reused array slot, and is marked OCI_OBJECT_FETCHED_CLEAN with the
\* supplied handle otherwise.
C26_AllocatedOrFetchedClean ==
    InitDone =>
        LET o == insts[ret.path] IN
        IF ret.handle = NULL \/ ret.op = "ArrayInit"
        THEN o.hstate = "ALLOCATED" /\ OwnsFresh(o)
        ELSE o.hstate = "FETCHED_CLEAN" /\ o.handle = ret.handle /\ ~o.own

\* C26 amended: an instance built without a handle is marked OCI_OBJECT_ALLOCATED, the
\* element of an array keeps the mark OCI_OBJECT_ALLOCATED_ARRAY; both own a freshly
\* allocated native instance. An instance built on a supplied handle is marked
\* OCI_OBJECT_FETCHED_CLEAN and keeps that handle, and so does every cached wrapper of
\* a nested object.
C26_ArraySlotKeepsMark ==
    /\ InitDone =>
           LET o == insts[ret.path] IN
           IF ret.op = "ArrayInit"
           THEN o.hstate = "ALLOCATED_ARRAY" /\ OwnsFresh(o)
           ELSE IF ret.handle = NULL
           THEN o.hstate = "ALLOCATED" /\ OwnsFresh(o)
           ELSE o.hstate = "FETCHED_CLEAN" /\ o.handle = ret.handle /\ ~o.own
    /\ \A q \in DOMAIN insts :
           q # << >> => (insts[q].hstate = "FETCHED_CLEAN" /\ ~insts[q].own)

\* a slot of an array, with a wrapper cached in it, is initialised again
C26_Witness ==
    /\ InitDone /\ ret.op = "ArrayInit"
    /\ ret.freed # {}
    /\ insts[ret.path].hstate = "ALLOCATED_ARRAY" /\ OwnsFresh(insts[ret.path])

(***************************************************************************)
(* SpecSlots: the arrays objs, tmpbufs, tmpsizes of a fetched instance. A  *)
(* define of a declared type is fetched row after row into one wrapper     *)
(* (ObjectInit); nested objects are wrapped (ObjectGetObject), attributes  *)
(* are read as text (ObjectGetString), the instance is the target of an    *)
(* assignment (ObjectAssign), is reset (ObjectReset) and freed             *)
(* (ObjectFree). first holds the declared type of the define, ret.before   *)
(* the wrappers before the call.                                           *)
(***************************************************************************)
\* LEAF(X INTEGER), INNER(Y INTEGER, A LEAF), P(B INNER, Z INTEGER) NOT FINAL,
\* D UNDER P (L LEAF)
SlotCatalog ==
    LET c1 == << NamedType(<< >>, NoType, TRUE, << NumCol("X", "INT") >>) >>
        c2 == Append(c1, NamedType(c1, NoType, TRUE,
                                   << NumCol("Y", "INT"), AttrCol("A", "OBJECT", "NONE", 1) >>))
        c3 == Append(c2, NamedType(c2, NoType, FALSE,
                                   << AttrCol("B", "OBJECT", "NONE", 2), NumCol("Z", "INT") >>))
    IN  Append(c3, NamedType(c3, 3, TRUE, << AttrCol("L", "OBJECT", "NONE", 1) >>))

SlotRet(op, p, index, before, r) ==
    [op |-> op, path |-> p, index |-> index, before |-> before, obj |-> r.obj,
     alloc |-> r.alloc, freed |-> r.freed]

InitSlots ==
    /\ thr = << >> /\ env = << >>
    /\ cat = SlotCatalog
    /\ lay = EmptyLayout(cat)
    /\ \E decl \in { t \in DOMAIN cat : ~cat[t].is_final } : first = [decl |-> decl]
    /\ insts = << >>
    /\ mem = [a \in 1..MemBytes |-> ZeroByte]
    /\ ind = [i \in 0..FlattenedCount(cat, Len(cat)) |-> OCI_IND_NOTNULL]
    /\ ret = SlotRet("none", << >>, -1, << >>, [obj |-> FALSE, alloc |-> FALSE, freed |-> {}])

\* ObjectInit(con, def->obj, handle, typinf, NULL, -1, TRUE): the next row of the define
SlotFetch(nat) ==
    \E r \in { ObjectInit(cat, insts, << >>, RootHandle, first.decl, TRUE, nat) } :
    /\ insts' = r.insts
    /\ ret' = SlotRet("ObjectInit", << >>, -1, insts, r)
    /\ UNCHANGED <<thr, env, cat, lay, first, mem, ind>>

\* ObjectGetObject(obj, attr) on the wrapper at p
SlotGetObject(p, attr) ==
    \E g \in { ObjectGetObject(cat, lay, insts, ind, p, attr) } :
    /\ lay' = g.L
    /\ insts' = g.insts
    /\ ret' = SlotRet("ObjectGetObject", p, g.index, insts,
                      [obj |-> g.obj, alloc |-> g.alloc, freed |-> {}])
    /\ UNCHANGED <<thr, env, cat, first, mem, ind>>

\* ObjectGetString(obj, attr) on the wrapper at p: the text is left in tmpbufs[index]
SlotGetString(p, attr) ==
    \E g \in { ObjectGetString(cat, lay, mem, ind, insts[p], attr) } :
    /\ lay' = g.L
    /\ insts' = IF g.buf >= 0 THEN [insts EXCEPT ![p].tmpsizes[g.buf + 1] = 1] ELSE insts
    /\ ret' = SlotRet("ObjectGetString", p, g.index, insts,
                      [obj |-> g.status, alloc |-> FALSE, freed |-> {}])
    /\ UNCHANGED <<thr, env, cat, first, mem, ind>>

\* ObjectReset(obj) on the wrapper at p
SlotReset(p) ==
    /\ insts' = ObjectReset(cat, insts, p)
    /\ ret' = SlotRet("ObjectReset", p, -1, insts,
                      [obj |-> TRUE, alloc |-> FALSE, freed |-> ObjectResetFrees(cat, insts, p)])
    /\ UNCHANGED <<thr, env, cat, lay, first, mem, ind>>

\* ObjectAssign(obj, obj_src): OCI_CALL_CHECK_COMPAT on the type handles, OCIObjectCopy
\* (ok is its outcome), then obj->typinf = obj_src->typinf and ObjectReset(obj)
ObjectAssign(c, I, p, src, ok) ==
    IF I[p].typinf # src \/ ~ok
    THEN [insts |-> I, obj |-> FALSE, alloc |-> FALSE, freed |-> {}]
    ELSE LET Typed(I1) ==
                 [insts |-> ObjectReset(c, I1, p), obj |-> TRUE, alloc |-> FALSE,
                  freed |-> ObjectResetFrees(c, I1, p)]
         IN  Typed([I EXCEPT ![p].typinf = src])

SlotAssign(p, src, ok) ==
    \E r \in { ObjectAssign(cat, insts, p, src, ok) } :
    /\ insts' = r.insts
    /\ ret' = SlotRet("ObjectAssign", p, -1, insts, r)
    /\ UNCHANGED <<thr, env, cat, lay, first, mem, ind>>

\* ObjectFree(obj) on the wrapper at p
SlotFree(p) ==
    /\ insts' = ObjectFree(cat, insts, p)
    /\ ret' = SlotRet("ObjectFree", p, -1, insts,
                      [obj |-> FALSE, alloc |-> FALSE, freed |-> ObjectFreeFrees(cat, insts, p)])
    /\ UNCHANGED <<thr, env, cat, lay, first, mem, ind>>

NextSlots ==
    \/ \E tdo \in RuntimeTypes(cat, first.decl) : \E found \in BOOLEAN :
           SlotFetch(NatFail(tdo, found, "none"))
    \/ \E p \in DOMAIN insts : \E attr \in AttrArgs(cat, insts[p].typinf) :
           SlotGetObject(p, attr)
    \/ \E p \in DOMAIN insts : \E attr \in AttrArgs(cat, insts[p].typinf) :
           SlotGetString(p, attr)
    \/ \E p \in DOMAIN insts : SlotReset(p)
    \/ \E p \in DOMAIN insts : \E src \in DOMAIN cat : \E ok \in BOOLEAN :
           SlotAssign(p, src, ok)
    \/ \E p \in DOMAIN insts : SlotFree(p)

SpecSlots == InitSlots /\ [][NextSlots]_vars

(***************************************************************************)
(* Claims on the slots                                                     *)
(***************************************************************************)
\* the wrappers cached under the columns of the instance at p of I
Cached(I, p) == Below(I, p, nb_cols(cat, I[p].typinf))

\* C27: after ObjectReset every objs[i] of the instance is empty, every tmpbufs[i] is
\* released and every tmpsizes[i] is 0, for all i below the column count; each cached
\* wrapper, FETCHED_CLEAN ones included, has really been freed; the handle, hstate,
\* type and indicator array of the instance are unchanged.
C27_ResetEmptiesSlots ==
    ret.op = "ObjectReset" =>
        LET o == insts[ret.path]
            b == ret.before[ret.path]
        IN  /\ Cached(insts, ret.path) = {}
            /\ \A i \in 1..nb_cols(cat, o.typinf) : o.tmpsizes[i] = 0
            /\ \A q \in Cached(ret.before, ret.path) :
                   /\ Res("struct", q, FALSE) \in ret.freed
                   /\ Res("arrays", q, FALSE) \in ret.freed
            /\ \A f \in ret.freed : f.res # "handle"
            /\ o.handle = b.handle /\ o.hstate = b.hstate /\ o.type = b.type
            /\ o.tab_ind = b.tab_ind /\ o.idx_ind = b.idx_ind /\ o.typinf = b.typinf

\* an instance with a text buffer and a cached wrapper that caches one itself is reset
C27_Witness ==
    /\ ret.op = "ObjectReset" /\ ret.path = << >>
    /\ \E i \in 1..Len(ret.before[<< >>].tmpsizes) : ret.before[<< >>].tmpsizes[i] # 0
    /\ \E q \in Cached(ret.before, << >>) :
           Len(q) = 2 /\ ret.before[q].hstate = "FETCHED_CLEAN"

\* C28: in every reachable state the arrays objs, tmpbufs and tmpsizes of an instance
\* have at least nb_cols slots for its current resolved type, and no call loses a cached
\* wrapper without freeing it, ObjectInit on an existing instance whose resolved type
\* differs from the declared or the previous one and ObjectAssign included.
C28_SlotsSizedAndKept ==
    /\ \A p \in DOMAIN insts : insts[p].nslots >= nb_cols(cat, insts[p].typinf)
    /\ ret.op \in { "ObjectInit", "ObjectAssign" } =>
           \A q \in DOMAIN ret.before \ DOMAIN insts : Res("struct", q, FALSE) \in ret.freed

RECURSIVE ObjectGetUserStructSize(_, _, _)

ColumnGetAttrInfo(c, t, index, past) ==
    IF index >= nb_cols(c, t)
    THEN past
    ELSE LET col == c[t].cols[index + 1]
             Nested(r) == [size |-> r.size, align |-> r.align]
         IN  IF col.datatype = "OBJECT"
             THEN Nested(ObjectGetUserStructSize(c, col.typinf, past))
             ELSE [size |-> ScalarSize(col), align |-> ScalarAlign(col)]

Larger(a, b) == IF a < b THEN b ELSE a

RECURSIVE UserSizeLoop(_, _, _, _, _, _, _)

\* a loop that looks ahead only while a next column exists
UserSizeLoop_Guarded(c, t, i, size, align, ahead, past) ==
    IF i >= nb_cols(c, t)
    THEN [size |-> size, align |-> align, ahead |-> ahead]
    ELSE LET Step(a1, a2) ==
                 UserSizeLoop(c, t, i + 1, ROUNDUP(size + a1.size, a2.align),
                              Larger(Larger(align, a1.align), a2.align),
                              IF i + 1 < nb_cols(c, t) THEN Append(ahead, i + 1) ELSE ahead,
                              past)
         IN  Step(ColumnGetAttrInfo(c, t, i, past),
                  IF i + 1 < nb_cols(c, t)
                  THEN ColumnGetAttrInfo(c, t, i + 1, past)
                  ELSE [size |-> 0, align |-> 0])

UserSizeLoop(c, t, i, size, align, ahead, past) ==
    IF i >= nb_cols(c, t)
    THEN [size |-> size, align |-> align, ahead |-> ahead]
    ELSE LET Step(a1, a2) ==
                 UserSizeLoop(c, t, i + 1, ROUNDUP(size + a1.size, a2.align),
                              Larger(Larger(align, a1.align), a2.align),
                              Append(ahead, i + 1), past)
         IN  Step(ColumnGetAttrInfo(c, t, i, past), ColumnGetAttrInfo(c, t, i + 1, past))

ObjectGetUserStructSize(c, t, past) == UserSizeLoop(c, t, 0, 0, 0, << >>, past)

(***************************************************************************)
(* SpecUser: callers ask for the user struct size of the types of a        *)
(* catalog                                                                 *)
(***************************************************************************)
\* what ColumnGetAttrInfo may give for the descriptor behind the last column
PastResults == { [size |-> 0, align |-> 0], [size |-> SizeofPtr, align |-> SizeofPtr] }

UserRet(op, t, past, r) ==
    [op |-> op, t |-> t, past |-> past, size |-> r.size, align |-> r.align, ahead |-> r.ahead]

InitUser ==
    /\ thr = << >> /\ env = << >>
    /\ cat \in Catalogs(NTypes, ScalarCols, MaxLayoutCols)
    /\ lay = EmptyLayout(cat)
    /\ first = << >>
    /\ ret = UserRet("none", NoType, [size |-> 0, align |-> 0],
                     [size |-> 0, align |-> 0, ahead |-> << >>])
    /\ insts = << >> /\ mem = << >> /\ ind = << >>

CallGetUserStructSize(t, past) ==
    /\ ret' = UserRet("GetUserStructSize", t, past, ObjectGetUserStructSize(cat, t, past))
    /\ UNCHANGED <<thr, env, cat, lay, first, objvars>>

NextUser == \E t \in TypeIds : \E past \in PastResults : CallGetUserStructSize(t, past)

SpecUser == InitUser /\ [][NextUser]_vars

\* C30: in ObjectGetUserStructSize, on the last iteration (i = nb_cols - 1) the
\* look-ahead descriptor passed to ColumnGetAttrInfo is cols[nb_cols], one past the end
\* of the column array of the type; the look-aheads before it are columns of the type.
C30_LookAheadPastTheEnd ==
    (ret.op = "GetUserStructSize" /\ nb_cols(cat, ret.t) >= 1) =>
        LET n == nb_cols(cat, ret.t) IN
        /\ Len(ret.ahead) = n
        /\ ret.ahead[n] = n
        /\ ret.ahead[n] + 1 \notin DOMAIN cat[ret.t].cols
        /\ \A k \in 1..(n - 1) : ret.ahead[k] = k /\ ret.ahead[k] + 1 \in DOMAIN cat[ret.t].cols

\* the size returned for a type of two columns depends on what is read behind the last
C30_Witness ==
    /\ ret.op = "GetUserStructSize"
    /\ nb_cols(cat, ret.t) = 2
    /\ ret.ahead = << 1, 2 >>
    /\ ret.past.align = SizeofPtr
    /\ ret.size = 32 /\ ret.align = SizeofPtr

(***************************************************************************)
(* SpecPaths: the slots of the indicator array that the attribute paths of *)
(* a root instance use. A path is the sequence of the column indexes from  *)
(* the root to an attribute; the instance embedded in attribute k has      *)
(* idx_ind = IndIndex(parent idx_ind, parent type, k) (ObjectInit), and    *)
(* attribute i of an instance uses slot IndIndex(idx_ind, type, i)         *)
(* (ObjectGetAttr, ObjectIsNull, ObjectSetNull).                           *)
(***************************************************************************)
WideLevels == 10     \* nested types of the wide catalog
WideFan == 3         \* attributes of a nested type, all of the type before it

\* type 1 is (NUMBER); type k + 1 has WideFan attributes of type k
RECURSIVE WideTypes(_)
WideTypes(k) ==
    IF k = 1
    THEN << [parent_type |-> NoType, cols |-> << Col("NUMERIC", "NUMBER", NoType) >>] >>
    ELSE Append(WideTypes(k - 1),
                [parent_type |-> NoType,
                 cols |-> [i \in 1..WideFan |-> Col("OBJECT", "NONE", k - 1)]])

\* the types of the attributes of the root, which a number follows: together they
\* take 65536 slots of the indicator array
WideRoot == << 10, 8, 8, 7, 7, 6, 6, 5, 5, 4, 3, 3, 3 >>

WideCatalog ==
    Append(WideTypes(WideLevels),
           [parent_type |-> NoType,
            cols |-> [i \in 1..Len(WideRoot) |-> Col("OBJECT", "NONE", WideRoot[i])]
                         \o << Col("NUMERIC", "NUMBER", NoType) >>])

PathCatalogs == Catalogs(NTypes, IndScalarCols, MaxIndCols) \cup { WideCatalog }

\* the columns of a type that callers ask for: all of them, the first and the last
\* of a type with many columns
ProbeCols(c, t) ==
    IF nb_cols(c, t) <= MaxIndCols THEN 0..(nb_cols(c, t) - 1) ELSE { 0, nb_cols(c, t) - 1 }

\* the attribute paths of type t, to depth d
RECURSIVE Paths(_, _, _)
Paths(c, t, d) ==
    { << i >> : i \in ProbeCols(c, t) }
        \cup (IF d = 0 THEN {}
              ELSE UNION { { << i >> \o q : q \in Paths(c, c[t].cols[i + 1].typinf, d - 1) } :
                           i \in { k \in ProbeCols(c, t) : c[t].cols[k + 1].datatype = "OBJECT" } })

\* the instance that holds the attribute of the path: its type and its idx_ind
RECURSIVE Holder(_, _, _, _)
Holder(c, t, idx_ind, path) ==
    IF Len(path) = 1
    THEN [typinf |-> t, idx_ind |-> idx_ind]
    ELSE Holder(c, c[t].cols[path[1] + 1].typinf, IndIndex(idx_ind, c, t, path[1]), Tail(path))

PathRet(path, h, prev) ==
    [op |-> "GetAttr", path |-> path, own |-> h.idx_ind,
     ind_index |-> IndIndex(h.idx_ind, cat, h.typinf, path[Len(path)]),
     prev |-> prev]

InitPaths ==
    /\ thr = << >> /\ env = << >>
    /\ cat \in PathCatalogs
    /\ lay = EmptyLayout(cat)
    /\ first = << >>
    /\ ret = [op |-> "none", path |-> << >>, own |-> 0, ind_index |-> 0,
              prev |-> [path |-> << >>, ind_index |-> 0]]
    /\ insts = << >> /\ mem = << >> /\ ind = << >>

\* ObjectGetAttr on the attribute at the end of path, from a root of the last type
CallPath(path) ==
    /\ ret' = PathRet(path, Holder(cat, Len(cat), 0, path),
                      [path |-> ret.path, ind_index |-> ret.ind_index])
    /\ UNCHANGED <<thr, env, cat, lay, first, objvars>>

\* callers go down to the last type of a small catalog, and stay at the root of a wide one
PathDepth(c) == IF Len(c) <= NTypes THEN NTypes ELSE 0

NextPaths == \E path \in Paths(cat, Len(cat), PathDepth(cat)) : CallPath(path)

SpecPaths == InitPaths /\ [][NextPaths]_vars

\* C31: the indicator index idx_ind + ObjectGetIndOffset(typinf, i) of attribute i of the
\* root or of an embedded instance differs for different attribute paths, is never the
\* own slot of the instance that holds the attribute, and lies in 1..N, N the flattened
\* attribute count of the root type.
C31_PathsHaveOwnSlots ==
    ret.op = "GetAttr" =>
        /\ ret.ind_index # ret.own
        /\ ret.ind_index \in 1..FlattenedCount(cat, Len(cat))
        /\ (ret.prev.path # << >> /\ ret.prev.path # ret.path)
               => ret.prev.ind_index # ret.ind_index

(***************************************************************************)
(* SpecOverlap: the layout of the types of a catalog, a catalog with an    *)
(* attribute of a subtype that declares no attribute included              *)
(***************************************************************************)
\* P(X NUMBER) NOT FINAL, D UNDER P (), R(A D, B DOUBLE)
ZeroNestedCatalog ==
    LET c1 == << TypeInfoGet(<< >>, NoType, << Col("NUMERIC", "NUMBER", NoType) >>) >>
        c2 == Append(c1, TypeInfoGet(c1, 1, << >>))
    IN  Append(c2, TypeInfoGet(c2, NoType,
                               << Col("OBJECT", "NONE", 2), Col("NUMERIC", "DOUBLE", NoType) >>))

OverlapCatalogs == Catalogs(NTypes, ScalarCols, MaxLayoutCols) \cup { ZeroNestedCatalog }

InitOverlap ==
    /\ thr = << >> /\ env = << >>
    /\ cat \in OverlapCatalogs
    /\ lay = EmptyLayout(cat)
    /\ first = << >>
    /\ ret = NoRet
    /\ insts = << >> /\ mem = << >> /\ ind = << >>

\* ObjectGetStructSize(typinf, &size, &align)
CallStructSizeOf(t) ==
    \E r \in { ObjectGetStructSize(cat, lay, t) } :
    /\ lay' = r.L
    /\ ret' = [op |-> "GetStructSize", t |-> t, index |-> 0, size |-> r.size,
               align |-> r.align, val |-> 0, again |-> lay[t].struct_size # 0]
    /\ UNCHANGED <<thr, env, cat, first, objvars>>

NextOverlap == \E t \in DOMAIN cat : CallStructSizeOf(t)

SpecOverlap == InitOverlap /\ [][NextOverlap]_vars

Multiple(a, b) == IF b = 0 THEN a = 0 ELSE a % b = 0

\* the storage of the columns of t: aligned, one behind the other, inside the struct
Disjoint(t) ==
    LET n == nb_cols(cat, t) IN
    /\ \A i \in 0..(n - 1) : Multiple(lay[t].offsets[i + 1], ColAlign(t, i))
    /\ \A i \in 0..(n - 2) : lay[t].offsets[i + 1] + ColSize(t, i) <= lay[t].offsets[i + 2]
    /\ n >= 1 => lay[t].offsets[n] + ColSize(t, n - 1) <= lay[t].struct_size

\* C32: after ObjectGetStructSize on any type (a type with a nested-object column whose
\* type has size 0 and alignment 0 included) each offsets[i] is a multiple of the
\* alignment of column i, offsets[i] + size(column i) <= offsets[i+1], and
\* offsets[last] + size(last column) <= struct_size.
C32_StorageDisjointAligned ==
    ret.op = "GetStructSize" => Disjoint(ret.t)

(***************************************************************************)
(* SpecFlags: the getters, ObjectIsNull and ObjectToText on a fetched      *)
(* instance whose null flags hold any value of OCIInd                      *)
(***************************************************************************)
\* OCIInd: OCI_IND_NOTNULL 0, OCI_IND_NULL -1, OCI_IND_BADNULL -2 (an enclosing object
\* is null), OCI_IND_NOTNULLABLE -3
OCI_IND_BADNULL == OCI_IND_NULL - 1
OCI_IND_NOTNULLABLE == OCI_IND_NULL - 2

IndValues == { OCI_IND_NOTNULL, OCI_IND_NULL, OCI_IND_BADNULL, OCI_IND_NOTNULLABLE }

InitFlags ==
    /\ thr = << >> /\ env = << >>
    /\ cat \in AttrCatalogs
    /\ lay = EmptyLayout(cat)
    /\ first = << >>
    /\ mem = [a \in 1..MemBytes |-> ZeroByte]
    /\ insts = ObjectInit(cat, << >>, << >>, RootHandle, Len(cat), TRUE, NatOk(Len(cat))).insts
    /\ ind \in { f \in [0..FlattenedCount(cat, Len(cat)) -> IndValues] : f[0] = OCI_IND_NOTNULL }
    /\ ret = AttrRet("none", << >>, "NONE", NoValue, TRUE, -1, FALSE)

NextFlags ==
    \/ \E p \in DOMAIN insts : \E attr \in AttrArgs(cat, insts[p].typinf) :
           IsNull(p, attr)
    \/ \E p \in DOMAIN insts : \E attr \in AttrArgs(cat, insts[p].typinf) :
           \E flag \in NumKinds : GetNumber(p, attr, flag, TRUE)
    \/ \E p \in DOMAIN insts : \E attr \in AttrArgs(cat, insts[p].typinf) :
           GetBoolean(p, attr)
    \/ \E p \in DOMAIN insts : \E attr \in AttrArgs(cat, insts[p].typinf) :
           GetString(p, attr)
    \/ \E p \in DOMAIN insts : \E attr \in AttrArgs(cat, insts[p].typinf) :
           GetRaw(p, attr)
    \/ \E p \in DOMAIN insts : \E attr \in AttrArgs(cat, insts[p].typinf) :
           GetObject(p, attr)
    \/ \E p \in DOMAIN insts : ToText(p, 0)

SpecFlags == InitFlags /\ [][NextFlags]_vars

\* the getter of the kind of the column
KindGetter(col) ==
    CASE col.datatype = "NUMERIC" -> "GetNumber"
      [] col.datatype = "BOOLEAN" -> "GetBoolean"
      [] col.datatype = "TEXT"    -> "GetString"
      [] col.datatype = "RAW"     -> "GetRaw"
      [] OTHER                    -> "GetObject"

\* ObjectIsNull of column i of the instance at p
IsNullNow(p, i) ==
    ObjectIsNull(cat, lay, ind, insts[p], cat[insts[p].typinf].cols[i + 1].name).val

\* C33: for every value of a null flag (not null, null, bad null, not nullable),
\* ObjectIsNull of an attribute is true exactly when the getter of the kind of the
\* attribute returns its neutral value and when ObjectToText renders the attribute as
\* the literal NULL.
C33_IsNullAgreesWithGetters ==
    /\ (/\ ret.op \in GetterOps /\ ret.index >= 0 /\ ret.status
        /\ ret.op = KindGetter(ColOf(<<ret.path, ret.index>>)))
           => (IsNullNow(ret.path, ret.index) <=> ret.val = NoValue)
    /\ (ret.op = "ToText" /\ ret.status)
           => \A i \in 0..(nb_cols(cat, insts[ret.path].typinf) - 1) :
                  IsNullNow(ret.path, i) <=> ret.text[3 + 2 * i].kind = "null"

(***************************************************************************)
(* SpecCount: the counter OCILib.nb_objinst over the life of a root         *)
(* instance and of the wrappers of its nested objects. env.nb_objinst is    *)
(* the counter, env.live the native instances OCIObjectNew has returned     *)
(* and OCIObjectFree has not released, env.base the counter before the      *)
(* last ObjectCreate.                                                      *)
(***************************************************************************)
\* P(X INTEGER) NOT FINAL, D UNDER P (Y INTEGER), R(A P, Z INTEGER)
CountCatalog ==
    LET c1 == << NamedType(<< >>, NoType, FALSE, << NumCol("X", "INT") >>) >>
        c2 == Append(c1, NamedType(c1, 1, TRUE, << NumCol("Y", "INT") >>))
    IN  Append(c2, NamedType(c2, NoType, TRUE,
                             << AttrCol("A", "OBJECT", "NONE", 1), NumCol("Z", "INT") >>))

\* native instances of other owners when the root is made
MaxOthers == 1

\* no instance is made once so many native instances are live
MaxLive == 3

\* MemObjectNew: the counter after OCIObjectNew has returned ok
MemObjectNew(n, ok) == IF ok THEN n + 1 ELSE n

\* MemObjectFree: the counter is decreased before OCIObjectFree is called
MemObjectFree(n, instance, freeOk) == IF instance # NULL THEN n - 1 ELSE n

\* the native instances after OCIObjectNew has returned ok
OCIObjectNew(n, ok) == IF ok THEN n + 1 ELSE n

\* the native instances after MemObjectFree(instance): OCIObjectFree releases the
\* instance when it succeeds
OCIObjectFree(n, instance, freeOk) == IF instance # NULL /\ freeOk THEN n - 1 ELSE n

\* the local REF of ObjectGetRealTypeInfo: ref stays NULL when MemObjectNew fails; the
\* argument result->con of MemObjectFree is read before the call
RefHandle(ok) == IF ok THEN RootHandle ELSE NULL

CountReal(e, real, nat, freeOk) ==
    IF "refNew" \notin real.calls
    THEN e
    ELSE IF real.crash
    THEN [e EXCEPT !.nb_objinst = MemObjectNew(@, nat.refNew),
                   !.live = OCIObjectNew(@, nat.refNew)]
    ELSE [e EXCEPT !.nb_objinst = MemObjectFree(MemObjectNew(@, nat.refNew),
                                                RefHandle(nat.refNew), freeOk),
                   !.live = OCIObjectFree(OCIObjectNew(@, nat.refNew),
                                          RefHandle(nat.refNew), freeOk)]

\* the handles a call has handed to MemObjectFree
RECURSIVE CountFrees(_, _, _)
CountFrees(e, handles, freeOk) ==
    IF handles = {}
    THEN e
    ELSE LET f == CHOOSE x \in handles : TRUE
         IN  CountFrees([e EXCEPT !.nb_objinst = MemObjectFree(@, RootHandle, freeOk),
                                  !.live = OCIObjectFree(@, RootHandle, freeOk)],
                        handles \ {f}, freeOk)

\* the counters after the ObjectInit that returned r
CountInit(e, r, nat, freeOk) ==
    LET made == ~r.crash /\ r.real.result # NoType /\ r.last.own
        Made(e1) == IF made
                    THEN [e1 EXCEPT !.nb_objinst = MemObjectNew(@, TRUE),
                                    !.live = OCIObjectNew(@, TRUE)]
                    ELSE e1
    IN  CountFrees(Made(CountReal(e, r.real, nat, freeOk)),
                   { f \in r.freed : f.res = "handle" }, freeOk)

CountRet(op, p, nat, freeOk, r) ==
    [op |-> op, path |-> p, nat |-> nat, freeOk |-> freeOk, obj |-> r.obj, crash |-> r.crash,
     freed |-> r.freed, real |-> r.real, prev |-> ret.op, was |-> env.nb_objinst]

InitCount ==
    /\ thr = << >>
    /\ \E n \in 0..MaxOthers : env = [nb_objinst |-> n, live |-> n, base |-> n]
    /\ cat = CountCatalog
    /\ lay = EmptyLayout(cat)
    /\ first = << >>
    /\ insts = << >>
    /\ mem = << >>
    /\ \E flag \in { OCI_IND_NOTNULL, OCI_IND_NULL } :
           ind = [i \in 0..FlattenedCount(cat, Len(cat)) |-> flag]
    /\ ret = [op |-> "none", path |-> << >>, nat |-> NatOk(NoType), freeOk |-> TRUE,
              obj |-> FALSE, crash |-> FALSE, freed |-> {}, real |-> NoReal,
              prev |-> "none", was |-> 0]

\* ObjectCreate(con, typinf)
CountCreate(t, nat, freeOk) ==
    \E r \in { ObjectInit(cat, insts, << >>, NULL, t, TRUE, nat) } :
    /\ ~ret.crash /\ env.live < MaxLive
    /\ << >> \notin DOMAIN insts
    /\ insts' = r.insts
    /\ env' = [CountInit(env, r, nat, freeOk) EXCEPT !.base = env.nb_objinst]
    /\ ret' = CountRet("ObjectCreate", << >>, nat, freeOk, r)
    /\ UNCHANGED <<thr, cat, lay, first, mem, ind>>

\* ObjectInit(con, obj, handle, typinf, NULL, -1, TRUE) on a fetched handle
CountFetch(t, nat, freeOk) ==
    \E r \in { ObjectInit(cat, insts, << >>, RootHandle, t, TRUE, nat) } :
    /\ ~ret.crash /\ env.live < MaxLive
    /\ << >> \in DOMAIN insts => insts[<< >>].hstate = "FETCHED_CLEAN"
    /\ insts' = r.insts
    /\ env' = CountInit(env, r, nat, freeOk)
    /\ ret' = CountRet("ObjectInit", << >>, nat, freeOk, r)
    /\ UNCHANGED <<thr, cat, lay, first, mem, ind>>

\* ObjectGetObject(obj, attr) on the wrapper at p: ObjectInit runs on the attribute
\* when the attribute is found and is not null
CountGetObject(p, attr, freeOk) ==
    \E g \in { ObjectGetObject(cat, lay, insts, ind, p, attr) } :
    \E t \in { IF g.obj THEN cat[insts[p].typinf].cols[g.index + 1].typinf ELSE NoType } :
    \E real \in { ObjectGetRealTypeInfo(cat, t, RootHandle, NatOk(t)) } :
    /\ ~ret.crash /\ env.live < MaxLive
    /\ lay' = g.L
    /\ insts' = g.insts
    /\ env' = CountReal(env, real, NatOk(t), freeOk)
    /\ ret' = CountRet("ObjectGetObject", p, NatOk(t), freeOk,
                       [obj |-> g.obj, crash |-> FALSE, freed |-> {}, real |-> real])
    /\ UNCHANGED <<thr, cat, first, mem, ind>>

\* ObjectReset(obj) on the wrapper at p
CountReset(p, freeOk) ==
    \E freed \in { ObjectResetFrees(cat, insts, p) } :
    /\ ~ret.crash
    /\ insts' = ObjectReset(cat, insts, p)
    /\ env' = CountFrees(env, { f \in freed : f.res = "handle" }, freeOk)
    /\ ret' = CountRet("ObjectReset", p, NatOk(NoType), freeOk,
                       [obj |-> TRUE, crash |-> FALSE, freed |-> freed, real |-> NoReal])
    /\ UNCHANGED <<thr, cat, lay, first, mem, ind>>

\* ObjectFree(obj) on the wrapper at p
CountFree(p, freeOk) ==
    \E freed \in { ObjectFreeFrees(cat, insts, p) } :
    /\ ~ret.crash
    /\ insts' = ObjectFree(cat, insts, p)
    /\ env' = CountFrees(env, { f \in freed : f.res = "handle" }, freeOk)
    /\ ret' = CountRet("ObjectFree", p, NatOk(NoType), freeOk,
                       [obj |-> FALSE, crash |-> FALSE, freed |-> freed, real |-> NoReal])
    /\ UNCHANGED <<thr, cat, lay, first, mem, ind>>

\* the outcomes of the native calls of a fetch: one call fails, or none
CountNat(t) ==
    { NatFail(tdo, found, step) :
        tdo \in RuntimeTypes(cat, t), found \in BOOLEAN,
        step \in { "none", "refNew", "typeByRef", "lookup", "getInd" } }

NextCount ==
    \/ \E t \in DOMAIN cat : \E step \in { "none", "objNew", "getInd" } :
       \E freeOk \in BOOLEAN : CountCreate(t, NatFail(t, FALSE, step), freeOk)
    \/ \E t \in DOMAIN cat : \E nat \in CountNat(t) : \E freeOk \in BOOLEAN :
           CountFetch(t, nat, freeOk)
    \/ \E p \in DOMAIN insts : \E attr \in AttrArgs(cat, insts[p].typinf) :
       \E freeOk \in BOOLEAN : CountGetObject(p, attr, freeOk)
    \/ \E p \in DOMAIN insts : \E freeOk \in BOOLEAN : CountReset(p, freeOk)
    \/ \E p \in DOMAIN insts : \E freeOk \in BOOLEAN : CountFree(p, freeOk)

SpecCount == InitCount /\ [][NextCount]_vars

\* C34: after any sequence of ObjectCreate, ObjectGetObject, ObjectReset and ObjectFree
\* calls, failed initialisations and type resolutions with their local REF included,
\* nb_objinst is the number of native instances obtained from MemObjectNew and not yet
\* freed; ObjectFree of the instance ObjectCreate has just created gives the counter the
\* value it had before the ObjectCreate.
C34_CounterIsLiveInstances ==
    /\ env.nb_objinst = env.live
    /\ (ret.op = "ObjectFree" /\ ret.path = << >> /\ ret.prev = "ObjectCreate")
           => env.nb_objinst = env.base

(***************************************************************************)
(* SpecHeap: MemAlloc, MemRealloc and MemFree on the blocks of the C heap.  *)
(* mem maps the address of each allocated block to its header (type,       *)
(* size); env holds the counters mem_bytes_lib and mem_bytes_oci.          *)
(***************************************************************************)
MaxBlocks == 2        \* blocks the heap can hold
MaxUnits == 2         \* block_size * block_count of a request, at most
MaxGarbage == 2       \* values the size field of a block fresh from realloc may hold
MaxHeapCalls == 4     \* calls made on the heap

\* struct OCI_MemoryBlock { int type; unsigned int size; }
SizeofMemoryBlock == SizeofInt + SizeofInt

PtrTypes == { "OCI_IPC_ORACLE", "OCI_IPC_VOID" }

\* the address malloc and realloc return for the k-th block of the heap
BlockAddr(k) == k * (SizeofMemoryBlock + MaxUnits + 1)

HeapAddrs == { BlockAddr(k) : k \in 1..MaxBlocks }

\* ((unsigned char *) mem_block) + sizeof(*mem_block), and back
UserPtr(mem_block) == mem_block + SizeofMemoryBlock
BlockOf(ptr_mem) == ptr_mem - SizeofMemoryBlock

\* MemUpdateBytes(type, size)
MemUpdateBytes(e, type, size) ==
    IF type = "OCI_IPC_ORACLE"
    THEN [e EXCEPT !.mem_bytes_oci = @ + size]
    ELSE [e EXCEPT !.mem_bytes_lib = @ + size]

HeapRes(h, e, ptr, exc) == [mem |-> h, env |-> e, ptr |-> ptr, exc |-> exc]

\* MemAlloc(ptr_type, block_size, block_count, zero_fill); mem_block is what malloc
\* returned, NULL when it failed
MemAlloc(h, e, ptr_type, units, mem_block) ==
    LET size == SizeofMemoryBlock + units IN
    IF mem_block # NULL
    THEN HeapRes([a \in DOMAIN h \cup { mem_block } |->
                     IF a = mem_block THEN [type |-> ptr_type, size |-> size] ELSE h[a]],
                 MemUpdateBytes(e, ptr_type, size), UserPtr(mem_block), FALSE)
    ELSE HeapRes(h, e, UserPtr(mem_block), TRUE)

\* MemFree(ptr_mem)
MemFree(h, e, ptr_mem) ==
    IF ptr_mem # NULL /\ BlockOf(ptr_mem) # NULL
    THEN HeapRes([a \in DOMAIN h \ { BlockOf(ptr_mem) } |-> h[a]],
                 MemUpdateBytes(e, h[BlockOf(ptr_mem)].type, 0 - h[BlockOf(ptr_mem)].size),
                 NULL, FALSE)
    ELSE HeapRes(h, e, NULL, FALSE)

\* MemRealloc(ptr_mem, ptr_type, block_size, block_count, zero_fill); ptr_new is what
\* realloc returns when it is called, NULL when it fails; old is the size field read
\* from the block realloc returned: the field of the block that was passed, and for
\* realloc(NULL, size) whatever the fresh block holds
MemRealloc(h, e, ptr_mem, ptr_type, units, ptr_new, garbage) ==
    LET mem_block == IF ptr_mem # NULL THEN BlockOf(ptr_mem) ELSE NULL
        size == SizeofMemoryBlock + units
        old  == IF mem_block # NULL THEN h[mem_block].size ELSE garbage
    IN  IF mem_block = NULL \/ h[mem_block].size < size
        THEN IF ptr_new # NULL
             THEN HeapRes([a \in DOMAIN h \cup { ptr_new } |->
                              IF a = ptr_new THEN [type |-> ptr_type, size |-> size] ELSE h[a]],
                          MemUpdateBytes(e, ptr_type, size - old), UserPtr(ptr_new), FALSE)
             ELSE IF ptr_mem # NULL
             THEN [MemFree(h, e, ptr_mem) EXCEPT !.exc = TRUE]
             ELSE HeapRes(h, e, NULL, FALSE)
        ELSE HeapRes(h, e, UserPtr(mem_block), FALSE)

HeapRet(op, ptr_mem, units, failed, r) ==
    [op |-> op, ptr_mem |-> ptr_mem, size |-> SizeofMemoryBlock + units, failed |-> failed,
     ptr |-> r.ptr, exc |-> r.exc, mem |-> mem, env |-> env, calls |-> ret.calls + 1]

InitHeap ==
    /\ thr = << >> /\ cat = << >> /\ lay = << >> /\ first = << >> /\ insts = << >>
    /\ ind = << >>
    /\ mem = << >>
    /\ env = [mem_bytes_lib |-> 0, mem_bytes_oci |-> 0]
    /\ ret = [op |-> "none", ptr_mem |-> NULL, size |-> 0, failed |-> FALSE, ptr |-> NULL,
              exc |-> FALSE, mem |-> << >>, env |-> env, calls |-> 0]

\* the addresses malloc may return: a free one, or NULL
Fresh == (HeapAddrs \ DOMAIN mem) \cup { NULL }

\* the pointers the program holds: to its blocks, and NULL
Held == { UserPtr(a) : a \in DOMAIN mem } \cup { NULL }

CallMemAlloc(ptr_type, units, mem_block) ==
    \E r \in { MemAlloc(mem, env, ptr_type, units, mem_block) } :
    /\ ret.calls < MaxHeapCalls
    /\ mem' = r.mem /\ env' = r.env
    /\ ret' = HeapRet("MemAlloc", NULL, units, mem_block = NULL, r)
    /\ UNCHANGED <<thr, cat, lay, first, insts, ind>>

CallMemRealloc(ptr_mem, ptr_type, units, ptr_new, garbage) ==
    \E r \in { MemRealloc(mem, env, ptr_mem, ptr_type, units, ptr_new, garbage) } :
    /\ ret.calls < MaxHeapCalls
    /\ mem' = r.mem /\ env' = r.env
    /\ ret' = HeapRet("MemRealloc", ptr_mem, units, ptr_new = NULL, r)
    /\ UNCHANGED <<thr, cat, lay, first, insts, ind>>

CallMemFree(ptr_mem) ==
    \E r \in { MemFree(mem, env, ptr_mem) } :
    /\ ret.calls < MaxHeapCalls
    /\ mem' = r.mem /\ env' = r.env
    /\ ret' = HeapRet("MemFree", ptr_mem, 0, FALSE, r)
    /\ UNCHANGED <<thr, cat, lay, first, insts, ind>>

NextHeap ==
    \/ \E ptr_type \in PtrTypes : \E units \in 0..MaxUnits : \E mem_block \in Fresh :
           CallMemAlloc(ptr_type, units, mem_block)
    \/ \E ptr_mem \in Held : \E ptr_type \in PtrTypes : \E units \in 0..MaxUnits :
       \E ptr_new \in (IF ptr_mem = NULL THEN Fresh ELSE { BlockOf(ptr_mem), NULL }) :
       \E garbage \in 0..MaxGarbage :
           CallMemRealloc(ptr_mem, ptr_type, units, ptr_new, garbage)
    \/ \E ptr_mem \in Held : CallMemFree(ptr_mem)

SpecHeap == InitHeap /\ [][NextHeap]_vars

RECURSIVE SumSizes(_, _)
SumSizes(h, addrs) ==
    IF addrs = {}
    THEN 0
    ELSE LET a == CHOOSE x \in addrs : TRUE
         IN  h[a].size + SumSizes(h, addrs \ {a})

\* C35: after any sequence of MemAlloc, MemRealloc (of NULL or of a block, growing or
\* not) and MemFree, mem_bytes_lib + mem_bytes_oci is the sum of the size fields of the
\* allocated blocks; MemRealloc of a block that is large enough changes neither the
\* blocks nor the counters.
C35_BytesAreBlockSizes ==
    /\ env.mem_bytes_lib + env.mem_bytes_oci = SumSizes(mem, DOMAIN mem)
    /\ (/\ ret.op = "MemRealloc" /\ ret.ptr_mem # NULL
        /\ ret.mem[BlockOf(ret.ptr_mem)].size >= ret.size)
           => mem = ret.mem /\ env = ret.env

\* C36: when malloc fails, MemAlloc returns NULL, raises the memory exception and
\* leaves the byte counters unchanged.
C36_FailedAllocReturnsNull ==
    (ret.op = "MemAlloc" /\ ret.failed)
        => ret.ptr = NULL /\ ret.exc /\ env = ret.env

(***************************************************************************)
(* SpecHash: a table made by HashCreate, then HashAdd, HashLookup and the   *)
(* HashGet functions. env is the table (type, size, items: one list of      *)
(* entries per bucket, each entry a key and its list of values); first      *)
(* is history: for each key in upper case, the values added, in order.      *)
(***************************************************************************)
MaxHashSize == 2      \* size passed to HashCreate, at most
MaxValues == 2        \* values added to a table, at most

HashTypeValues == { "OCI_HASH_STRING", "OCI_HASH_INTEGER", "OCI_HASH_POINTER" }

\* keys are texts of one or two characters
HashKeys == { << "a", "b" >>, << "A", "B" >>, << "b" >> }
HashVals == { 1, 2 }

\* otoupper(*p) as a character code
otoupper(ch) ==
    CASE ToUpper(ch) = "A" -> 65
      [] ToUpper(ch) = "B" -> 66
      [] OTHER -> 0

\* ostrcasecmp(e->key, key) == 0 on texts
KeyCaseEqual(a, b) ==
    Len(a) = Len(b) /\ \A i \in 1..Len(a) : ostrcasecmp(a[i], b[i])

UpperKey(key) == [i \in 1..Len(key) |-> ToUpper(key[i])]

\* the loop of HashCompute: h = 31 * h + otoupper(*p) on an unsigned int of 32 bits,
\* kept as two halves of 16 bits
RECURSIVE HashLoop(_, _, _)
HashLoop(h, str, p) ==
    IF p > Len(str)
    THEN h
    ELSE LET lo == 31 * h.lo + otoupper(str[p])
         IN  HashLoop([hi |-> (31 * h.hi + (lo \div Ub2Mod)) % Ub2Mod, lo |-> lo % Ub2Mod],
                      str, p + 1)

\* h % size for size > 0
HashMod(h, size) == ((h.hi % size) * (Ub2Mod % size) + (h.lo % size)) % size

\* HashCompute(table, str): h % table->size; for size 0 the division traps, or the
\* remainder is h on processors that do not trap (a value that is only compared with
\* the size 0)
HashCompute(table, str, trap) ==
    LET Mod(h) ==
            IF table.size = 0
            THEN [i |-> IF h.hi = 0 THEN h.lo ELSE Ub2Mod, crash |-> trap]
            ELSE [i |-> HashMod(h, table.size), crash |-> FALSE]
    IN  Mod(HashLoop([hi |-> 0, lo |-> 0], str, 1))

\* HashCreate(size, type)
HashCreate(size, type) ==
    [type |-> type, size |-> size, items |-> [i \in 1..size |-> << >>], crash |-> FALSE]

NoEntry == [i |-> -1, pos |-> 0]

\* the position of the entry of key in the list of bucket i, 0 when there is none
FindEntry(table, i, key) ==
    LET hits == { n \in 1..Len(table.items[i + 1]) :
                      KeyCaseEqual(table.items[i + 1][n].key, key) }
    IN  IF hits = {} THEN 0 ELSE CHOOSE n \in hits : \A m \in hits : n <= m

\* HashLookup(table, key, create): the entry found or made is at the end of e
HashLookup(table, key, create, trap) ==
    LET At(c) ==
            IF c.crash
            THEN [table |-> [table EXCEPT !.crash = TRUE], e |-> NoEntry]
            ELSE IF c.i < table.size
            THEN LET pos == FindEntry(table, c.i, key) IN
                 IF pos = 0 /\ create
                 THEN [table |-> [table EXCEPT !.items[c.i + 1] =
                                      Append(@, [key |-> key, values |-> << >>])],
                       e |-> [i |-> c.i, pos |-> Len(table.items[c.i + 1]) + 1]]
                 ELSE [table |-> table,
                       e |-> IF pos = 0 THEN NoEntry ELSE [i |-> c.i, pos |-> pos]]
            ELSE [table |-> table, e |-> NoEntry]
    IN  At(HashCompute(table, key, trap))

\* the member of OCI_Variant HashAdd stores for a table of the type
Variant(type, value) ==
    [member |-> CASE type = "OCI_HASH_STRING" -> "p_text"
                  [] type = "OCI_HASH_INTEGER" -> "num"
                  [] OTHER -> "p_void",
     v |-> value]

\* a list that takes a new value at its head
LinkValue_AtHead(values, v) == << v >> \o values

\* the loop of HashAdd on e->values: v is linked after the last value
LinkValue(values, v) == Append(values, v)

\* HashAdd(table, key, value, type)
HashAdd(table, key, value, type, trap) ==
    IF table.type # type
    THEN [table |-> table, res |-> FALSE]
    ELSE LET Linked(l) ==
                 IF l.e = NoEntry
                 THEN [table |-> l.table, res |-> FALSE]
                 ELSE [table |-> [l.table EXCEPT !.items[l.e.i + 1][l.e.pos].values =
                                      LinkValue(@, Variant(type, value))],
                       res |-> TRUE]
         IN  Linked(HashLookup(table, key, TRUE, trap))

\* HashGetValue(table, key): e->values, the first value of the list, NULL without entry
HashGetValue(table, key, trap) ==
    LET Valued(l) ==
            IF l.e = NoEntry \/ l.table.items[l.e.i + 1][l.e.pos].values = << >>
            THEN [table |-> l.table, v |-> NoValue]
            ELSE [table |-> l.table, v |-> l.table.items[l.e.i + 1][l.e.pos].values[1]]
    IN  Valued(HashLookup(table, key, FALSE, trap))

\* HashGetString, HashGetInt, HashGetPointer: type is the type the function is for
HashGetTyped(table, key, type, trap) ==
    IF table.type # type
    THEN [table |-> table, v |-> NoValue]
    ELSE HashGetValue(table, key, trap)

\* the entries of a table
Entries(table) ==
    UNION { { [i |-> i, pos |-> n] : n \in 1..Len(table.items[i + 1]) } :
            i \in 0..(table.size - 1) }
EntryAt(table, e) == table.items[e.i + 1][e.pos]

RECURSIVE NbValues(_, _)
NbValues(f, keys) ==
    IF keys = {}
    THEN 0
    ELSE LET k == CHOOSE x \in keys : TRUE
         IN  Len(f[k]) + NbValues(f, keys \ {k})

HashRet(op, key, type, res) ==
    [op |-> op, key |-> key, type |-> type, res |-> res, before |-> env]

InitHash ==
    /\ thr = << >> /\ cat = << >> /\ lay = << >> /\ insts = << >>
    /\ ind = << >> /\ mem = << >>
    /\ first = << >>
    /\ \E size \in 0..MaxHashSize : \E type \in HashTypeValues :
           env = HashCreate(size, type)
    /\ ret = [op |-> "HashCreate", key |-> << >>, type |-> env.type, res |-> TRUE,
              before |-> env]

Traps == IF env.size = 0 THEN BOOLEAN ELSE { FALSE }

\* HashAdd(table, key, value, type), through HashAddString, HashAddInt, HashAddPointer
CallHashAdd(key, value, type, trap) ==
    \E r \in { HashAdd(env, key, value, type, trap) } :
    /\ ~env.crash /\ NbValues(first, DOMAIN first) < MaxValues
    /\ env' = r.table
    /\ first' = IF ~r.res THEN first
                ELSE [k \in DOMAIN first \cup { UpperKey(key) } |->
                         IF k = UpperKey(key)
                         THEN (IF k \in DOMAIN first THEN first[k] ELSE << >>)
                                  \o << Variant(type, value) >>
                         ELSE first[k]]
    /\ ret' = HashRet("HashAdd", key, type, r.res)
    /\ UNCHANGED <<thr, cat, lay, insts, ind, mem>>

\* HashLookup(table, key, FALSE)
CallHashLookup(key, trap) ==
    \E r \in { HashLookup(env, key, FALSE, trap) } :
    /\ ~env.crash
    /\ env' = r.table
    /\ ret' = HashRet("HashLookup", key, env.type, r.e)
    /\ UNCHANGED <<thr, cat, lay, first, insts, ind, mem>>

CallHashGetValue(key, trap) ==
    \E r \in { HashGetValue(env, key, trap) } :
    /\ ~env.crash
    /\ env' = r.table
    /\ ret' = HashRet("HashGetValue", key, env.type, r.v)
    /\ UNCHANGED <<thr, cat, lay, first, insts, ind, mem>>

\* HashGetString, HashGetInt, HashGetPointer
CallHashGetTyped(key, type, trap) ==
    \E r \in { HashGetTyped(env, key, type, trap) } :
    /\ ~env.crash
    /\ env' = r.table
    /\ ret' = HashRet("HashGetTyped", key, type, r.v)
    /\ UNCHANGED <<thr, cat, lay, first, insts, ind, mem>>

NextHash ==
    \/ \E key \in HashKeys : \E value \in HashVals : \E type \in HashTypeValues :
       \E trap \in Traps : CallHashAdd(key, value, type, trap)
    \/ \E key \in HashKeys : \E trap \in Traps : CallHashLookup(key, trap)
    \/ \E key \in HashKeys : \E trap \in Traps : CallHashGetValue(key, trap)
    \/ \E key \in HashKeys : \E type \in HashTypeValues : \E trap \in Traps :
           CallHashGetTyped(key, type, trap)

SpecHash == InitHash /\ [][NextHash]_vars

GetOps == { "HashLookup", "HashGetValue", "HashGetTyped" }

\* C37: after any sequence of HashAdd, HashLookup and HashGet calls on a table made by
\* HashCreate with any size it accepts, the calls have returned, no two entries have
\* keys equal ignoring case, every entry is in the bucket HashCompute gives for its key,
\* that bucket is below table->size, and a lookup without create adds no entry.
C37_EntriesUniqueAndPlaced ==
    /\ ~env.crash
    /\ \A e1, e2 \in Entries(env) :
           KeyCaseEqual(EntryAt(env, e1).key, EntryAt(env, e2).key) => e1 = e2
    /\ \A e \in Entries(env) :
           /\ e.i = HashCompute(env, EntryAt(env, e).key, FALSE).i
           /\ e.i < env.size
    /\ ret.op \in GetOps => env = ret.before

\* the entry of key in the table, NoEntry when there is none
EntryOf(table, key) ==
    IF \E e \in Entries(table) : KeyCaseEqual(EntryAt(table, e).key, key)
    THEN CHOOSE e \in Entries(table) : KeyCaseEqual(EntryAt(table, e).key, key)
    ELSE NoEntry

\* C38: HashAdd on a key that is present ignoring case links the value at the end of
\* the values of that key and makes no entry, so that the values of a key are in the
\* order they were added, and HashGetValue, HashGetString, HashGetInt and
\* HashGetPointer return the first value added for the key; HashAdd with a type that
\* is not the type of the table returns FALSE and changes nothing.
C38_ValuesInInsertionOrder ==
    /\ (ret.op = "HashAdd" /\ ret.type # ret.before.type)
           => ~ret.res /\ env = ret.before
    /\ (/\ ret.op = "HashAdd" /\ ret.type = ret.before.type
        /\ EntryOf(ret.before, ret.key) # NoEntry)
           => /\ ret.res
              /\ Entries(env) = Entries(ret.before)
              /\ \A e \in Entries(env) :
                     /\ EntryAt(env, e).key = EntryAt(ret.before, e).key
                     /\ e # EntryOf(ret.before, ret.key)
                            => EntryAt(env, e) = EntryAt(ret.before, e)
                     /\ e = EntryOf(ret.before, ret.key)
                            => /\ Len(EntryAt(env, e).values)
                                      = Len(EntryAt(ret.before, e).values) + 1
                               /\ SubSeq(EntryAt(env, e).values, 1,
                                         Len(EntryAt(ret.before, e).values))
                                      = EntryAt(ret.before, e).values
    /\ \A e \in Entries(env) :
           /\ UpperKey(EntryAt(env, e).key) \in DOMAIN first
           /\ EntryAt(env, e).values = first[UpperKey(EntryAt(env, e).key)]
    /\ (/\ ret.op \in { "HashGetValue", "HashGetTyped" } /\ ret.type = env.type
        /\ UpperKey(ret.key) \in DOMAIN first)
           => ret.res = first[UpperKey(ret.key)][1]

\* a value is read through a key that differs in case from the key of the entry, and
\* the entry holds two values that differ
C38_Witness ==
    /\ ret.op = "HashGetTyped" /\ ret.type = env.type
    /\ EntryOf(env, ret.key) # NoEntry
    /\ EntryAt(env, EntryOf(env, ret.key)).key # ret.key
    /\ Len(EntryAt(env, EntryOf(env, ret.key)).values) = 2
    /\ EntryAt(env, EntryOf(env, ret.key)).values[1]
           # EntryAt(env, EntryOf(env, ret.key)).values[2]
    /\ ret.res = EntryAt(env, EntryOf(env, ret.key)).values[1]

(***************************************************************************)
(* SpecSeek: FileInit, then FileSeek calls on a file of constant size.      *)
(* env is the file: size (what FileGetSize returns) and offset              *)
(* (file->offset); big_uint is an unsigned integer of OffsetBits bits.      *)
(***************************************************************************)
OffsetBits == 3       \* width of big_uint

BigUintMod == 2 ^ OffsetBits
BigUint == 0..(BigUintMod - 1)

SeekModeValues == { "OCI_SEEK_SET", "OCI_SEEK_END", "OCI_SEEK_CUR" }

\* FileInit: file->offset = 1
FileInit(size) == [size |-> size, offset |-> 1 % BigUintMod]

\* FileGetOffset(file): file->offset - 1
FileGetOffset(file) == (file.offset + BigUintMod - 1) % BigUintMod

\* a seek that moves without comparing with the size
FileSeek_Unchecked(file, offset, mode) ==
    CASE mode = "OCI_SEEK_CUR" ->
             [file |-> [file EXCEPT !.offset = (@ + offset) % BigUintMod], res |-> TRUE]
      [] mode = "OCI_SEEK_SET" ->
             [file |-> [file EXCEPT !.offset = (offset + 1) % BigUintMod], res |-> TRUE]
      [] mode = "OCI_SEEK_END" ->
             [file |-> [file EXCEPT !.offset =
                           (file.size + BigUintMod - offset + 1) % BigUintMod],
              res |-> TRUE]
      [] OTHER -> [file |-> file, res |-> FALSE]

\* FileSeek(file, offset, mode); a mode that is not a seek mode fails the check on entry
FileSeek(file, offset, mode) ==
    CASE mode = "OCI_SEEK_CUR" ->
             IF (offset + file.offset + BigUintMod - 1) % BigUintMod <= file.size
             THEN [file |-> [file EXCEPT !.offset = (@ + offset) % BigUintMod],
                   res |-> TRUE]
             ELSE [file |-> file, res |-> FALSE]
      [] mode = "OCI_SEEK_SET" ->
             IF offset <= file.size
             THEN [file |-> [file EXCEPT !.offset = (offset + 1) % BigUintMod],
                   res |-> TRUE]
             ELSE [file |-> file, res |-> FALSE]
      [] mode = "OCI_SEEK_END" ->
             IF offset <= file.size
             THEN [file |-> [file EXCEPT !.offset =
                                (file.size + BigUintMod - offset + 1) % BigUintMod],
                   res |-> TRUE]
             ELSE [file |-> file, res |-> FALSE]
      [] OTHER -> [file |-> file, res |-> FALSE]

InitSeek ==
    /\ thr = << >> /\ cat = << >> /\ lay = << >> /\ insts = << >>
    /\ ind = << >> /\ mem = << >> /\ first = << >>
    /\ \E size \in BigUint : env = FileInit(size)
    /\ ret = [op |-> "FileInit", mode |-> "none", offset |-> 0, res |-> TRUE,
              before |-> env.offset]

CallFileSeek(offset, mode) ==
    \E r \in { FileSeek(env, offset, mode) } :
    /\ env' = r.file
    /\ ret' = [op |-> "FileSeek", mode |-> mode, offset |-> offset, res |-> r.res,
               before |-> env.offset]
    /\ UNCHANGED <<thr, cat, lay, first, insts, ind, mem>>

NextSeek ==
    \E offset \in BigUint : \E mode \in SeekModeValues \cup { "none" } :
        CallFileSeek(offset, mode)

SpecSeek == InitSeek /\ [][NextSeek]_vars

\* C39: with offsets as unsigned integers modulo 2^w, for a file of constant size S and
\* any FileSeek calls after FileInit, 0 <= FileGetOffset <= S in every state, a FileSeek
\* that returns FALSE leaves the position unchanged, a successful seek to k from the
\* start gives FileGetOffset = k and a successful seek to k from the end gives
\* FileGetOffset = S - k.
C39_OffsetWithinFile ==
    /\ FileGetOffset(env) \in 0..env.size
    /\ (ret.op = "FileInit") => FileGetOffset(env) = 0
    /\ (ret.op = "FileSeek" /\ ~ret.res) => env.offset = ret.before
    /\ (ret.op = "FileSeek" /\ ret.res /\ ret.mode = "OCI_SEEK_SET")
           => FileGetOffset(env) = ret.offset
    /\ (ret.op = "FileSeek" /\ ret.res /\ ret.mode = "OCI_SEEK_END")
           => FileGetOffset(env) = env.size - ret.offset

\* a relative seek whose sum wraps around has moved the position back, in a file that
\* is smaller than the largest offset
C39_Witness ==
    /\ ret.op = "FileSeek" /\ ret.res /\ ret.mode = "OCI_SEEK_CUR"
    /\ ret.offset + ret.before > BigUintMod
    /\ env.offset < ret.before
    /\ env.size < BigUintMod - 1

====
